---- MODULE Spec2Model ----
(***************************************************************************)
(* Alert / response / monitoring-session consistency protocol of the       *)
(* Drewbert overdose response network.                                      *)
(*                                                                         *)
(* The durable store (tables alerts, responses, response_cancellations,    *)
(* monitoring_sessions, their constraints, row-level-security policies and *)
(* stored procedures) is modelled from supabase/migrations; the clients    *)
(* (useAlerts, useMonitoringSession) are modelled from src/hooks, one      *)
(* action per store round trip, so that calls of different tabs interleave *)
(* at every await.                                                         *)
(***************************************************************************)
EXTENDS Integers, Sequences, FiniteSets, TLC

(***************************************************************************)
(* Bounds of the model.                                                    *)
(***************************************************************************)
\* total number of hook calls started in one behaviour
MaxOps == 2
\* number of store calls that may fail in one behaviour
MaxFaults == 1
\* last value of the store's clock: bounds the session calls of a behaviour
MaxClock == 4

NULL == "null"

\* authenticated identities; every one of them has profiles.is_responder
Users == {"u1", "u2"}
\* the unauthenticated (anon role) client
Anon == "anon"
Callers == Users \cup {Anon}
\* a second unauthenticated client, in another browser; it creates no alert
Anon2 == "anon2"
\* every client that can issue a store call
Clients == Callers \cup {Anon2}
AlertIds == {"a1"}
\* values of responses.id
RowIds == {"r1", "r2", "r3", "r4", "r5", "r6"}
\* browser tabs: each runs one hook call at a time, several may share a user
Tabs == {"t1", "t2"}

AlertStatus == {"active", "responded", "resolved", "cancelled", "false_alarm"}
ResponseStatus == {"committed", "en_route", "arrived", "completed"}
\* response statuses that count as a live commitment
LiveStatus == {"committed", "en_route", "arrived"}

VARIABLES
  alerts,                  \* table alerts: id -> row
  responses,               \* table responses: set of rows [id, alert_id, responder_id, status]
  response_cancellations,  \* table response_cancellations: (alert_id, responder_id) logged
  op,                      \* per tab: the hook call in flight and its locals
  userCommitments,         \* per tab: the useAlerts commitment map (set of alert ids)
  calls,                   \* history: number of calls started per (kind, caller, alert)
  faults,                  \* history: number of store calls that failed
  alertList,               \* the `alerts` state of a mounted useAlerts instance
  monitoring_sessions,     \* table monitoring_sessions: set of rows
  sop,                     \* per tab: the useMonitoringSession call in flight
  currentSession,          \* per tab: the hook's currentSession (a session id)
  now,                     \* the store's clock, for ended_at
  createdAlerts,           \* table alerts: the rows inserted by createAlert calls
  isMounted,               \* useAlerts: isMountedRef.current
  connectionStatus,        \* useAlerts: the connectionStatus state
  pollingTimer,            \* useAlerts: pollingTimerRef holds a running interval
  debounceTimer,           \* useAlerts: debounceTimerRef holds a pending timeout
  safetyTimer,             \* useAlerts: the 3 s safety-net timeout is pending
  setup,                   \* useAlerts: position of setupSubscriptions
  chan,                    \* per push subscription: its last reported state
  subscriptionsRef,        \* useAlerts: subscriptionsRef.current
  fetches,                 \* useAlerts: the fetchAlerts calls in flight
  everSubscribed,          \* history: a subscription has reported SUBSCRIBED
  degraded,                \* history: CHANNEL_ERROR or CLOSED reported, no SUBSCRIBED since
  pollFlip,                \* history: flips at every polling-triggered refetch
  lastFetch                \* history: how the last completed fetchAlerts ended

VARIABLES
  retry                    \* the withRetry call in flight and its caller's report

VARIABLES
  state,                   \* useMonitoring: the MonitoringState
  intervalRef,             \* useMonitoring: TRUE while the 1 s interval is armed
  onAlertCallback,         \* useMonitoring: TRUE once a callback is registered
  alertTriggeredRef,       \* useMonitoring: the once-only flag
  callbackCalls,           \* history: callback invocations since startMonitoring
  undisturbed,             \* history: no respondToCheckIn/stopMonitoring since startMonitoring
  runs                     \* history: number of startMonitoring calls

VARIABLES
  sessionStorage,          \* the requester's tab: the keys active_alert and from_monitoring
  currentView,             \* App: the view shown in the requester's tab
  emergencyHelp            \* EmergencyHelp: alertSent, alertId and the 2 s creation timer

retryVars == <<retry>>
emergencyVars == <<sessionStorage, currentView, emergencyHelp>>
monitorVars == <<state, intervalRef, onAlertCallback, alertTriggeredRef,
                 callbackCalls, undisturbed, runs>>
auxVars == <<retryVars, monitorVars, emergencyVars>>
alertVars == <<alerts, responses, response_cancellations, op, userCommitments,
               calls, faults, alertList>>
sessionVars == <<monitoring_sessions, sop, currentSession, now, createdAlerts>>
syncVars == <<isMounted, connectionStatus, pollingTimer, debounceTimer, safetyTimer,
              setup, chan, subscriptionsRef, fetches, everSubscribed, degraded,
              pollFlip, lastFetch>>
vars == <<alertVars, sessionVars, syncVars, auxVars>>

(***************************************************************************)
(* The durable store: row-level security and stored procedures.            *)
(***************************************************************************)

\* the role of a caller's store session
auth_uid(caller) == IF caller \in Users THEN caller ELSE NULL

\* UPDATE policies on alerts: "Users can update own alerts" (authenticated)
\* and "Anonymous users can update own alerts" (anon)
AlertUpdatePolicy(caller, row) ==
  IF caller \notin Users
  THEN row.user_id = NULL /\ row.anonymous_id # NULL
  ELSE row.user_id = auth_uid(caller)

\* policy "Responders can manage responses" (FOR ALL, authenticated):
\* own rows, or any row when the caller's profile has is_responder
ResponsePolicy(caller, responder_id) ==
  caller \in Users /\ (auth_uid(caller) = responder_id \/ caller \in Users)

\* rows of responses matching (alert_id, responder_id)
ResponseRows(rs, a, u) == {r \in rs : r.alert_id = a /\ r.responder_id = u}

\* constraint responses_alert_responder_unique
responses_alert_responder_unique(rs) ==
  \A r1, r2 \in rs :
    (r1.alert_id = r2.alert_id /\ r1.responder_id = r2.responder_id) => r1 = r2

\* a fresh row id (gen_random_uuid()): any id no current row carries
NewId(rs) == CHOOSE i \in RowIds : \A r \in rs : r.id # i

\* the INSERT as it would run if the unique constraint were missing
InsertResponse_NoConstraint(rs, a, u, st) ==
  [ok |-> TRUE,
   rows |-> rs \cup {[id |-> NewId(rs), alert_id |-> a, responder_id |-> u,
                      status |-> st]}]

\* INSERT INTO responses under the unique constraint; the result is
\* [ok, rows], ok = FALSE standing for unique_violation
InsertResponse(rs, a, u, st) ==
  LET rs2 == rs \cup {[id |-> NewId(rs), alert_id |-> a, responder_id |-> u,
                       status |-> st]}
  IN IF responses_alert_responder_unique(rs2)
     THEN [ok |-> TRUE, rows |-> rs2]
     ELSE [ok |-> FALSE, rows |-> rs]

\* the id of the row of (alert_id, responder_id), NULL when there is none
ExistingId(rs, a, u) ==
  IF ResponseRows(rs, a, u) = {} THEN NULL
  ELSE (CHOOSE r \in ResponseRows(rs, a, u) : TRUE).id

\* create_response_safe(p_alert_id, p_responder_id, p_status) runs at READ
\* COMMITTED: its SELECT and its INSERT are two statements, and another
\* transaction may commit between them.
\* First statement: SELECT id INTO existing_response_id.
create_response_safe_select(rs, a, u) == ExistingId(rs, a, u)

\* Second statement: INSERT ... RETURNING id, with the EXCEPTION handler
\* that returns the id of the row that won on unique_violation.
\* Result: [rows, data].
create_response_safe_insert(rs, a, u, st) ==
  LET new == NewId(rs)
      ins == InsertResponse(rs, a, u, st)
  IN IF ins.ok
     THEN [rows |-> ins.rows, data |-> new]
     ELSE [rows |-> rs, data |-> ExistingId(rs, a, u)]

\* the increment as it would run if it set status responded without the
\* CASE on the current status
increment_responder_count_NoCase(al, caller, a) ==
  IF AlertUpdatePolicy(caller, al[a])
  THEN [al EXCEPT ![a].responder_count = @ + 1, ![a].status = "responded"]
  ELSE al

\* increment_responder_count(p_alert_id): one UPDATE, run with the
\* caller's rights, so the alerts UPDATE policy filters the row
increment_responder_count(al, caller, a) ==
  IF AlertUpdatePolicy(caller, al[a])
  THEN [al EXCEPT ![a].responder_count = @ + 1,
                  ![a].status = IF @ = "active" THEN "responded" ELSE @]
  ELSE al

\* the subtraction as it would run without the floor
Greatest0_NoFloor(n) == n

\* GREATEST(0, n) in SQL, Math.max(0, n) in the hook
Greatest0(n) == IF n > 0 THEN n ELSE 0

\* decrement_responder_count(p_alert_id)
decrement_responder_count(al, caller, a) ==
  IF AlertUpdatePolicy(caller, al[a])
  THEN [al EXCEPT ![a].responder_count = Greatest0(@ - 1),
                  ![a].status =
                     IF Greatest0(al[a].responder_count - 1) = 0 /\ @ = "responded"
                     THEN "active" ELSE @]
  ELSE al

\* number of live (committed, en_route, arrived) responses of an alert
LiveCount(rs, a) ==
  Cardinality({r \in rs : r.alert_id = a /\ r.status \in LiveStatus})

\* cancel_response_safe(p_alert_id, p_responder_id, p_reason), first
\* statement: SELECT EXISTS(...) INTO response_exists
cancel_response_safe_exists(rs, a, u) == ResponseRows(rs, a, u) # {}

\* cancel_response_safe, the statements after the check: log, delete,
\* decrement, count the live responses left, cancel the alert when none is.
\* Result: [alerts, rows, log].
cancel_response_safe_body(al, rs, log, caller, a, u) ==
  LET log2 == log \cup {<<a, u>>}
      rs2  == rs \ ResponseRows(rs, a, u)
      al2  == decrement_responder_count(al, caller, a)
      al3  == IF LiveCount(rs2, a) = 0 /\ AlertUpdatePolicy(caller, al2[a])
              THEN [al2 EXCEPT ![a].status = "cancelled"]
              ELSE al2
  IN [alerts |-> al3, rows |-> rs2, log |-> log2]

(***************************************************************************)
(* useAlerts: commitToAlert, cancelResponse, endResponse.                  *)
(* op[t].pc names the store call the tab's hook call is about to issue.    *)
(***************************************************************************)

Kinds == {"commit", "cancel", "end", "cancelAlert"}

\* kind, user, alert and statusAtStart of an idle tab describe its last call;
\* heldLive: the UPDATE of endResponse found a live response of the caller;
\* found: cancel_response_safe found a response of the caller;
\* created: create_response_safe inserted the response row;
\* outcome: how the call ended (none, returned, threw)
idleOp == [kind |-> "idle", pc |-> "idle", user |-> NULL, alert |-> NULL,
           currentCount |-> 0, statusAtStart |-> NULL, heldLive |-> FALSE,
           found |-> FALSE, created |-> FALSE, outcome |-> "none"]

\* the call of tab t returns to its caller
Returned(t) == [op EXCEPT ![t].pc = "idle", ![t].currentCount = 0,
                          ![t].outcome = "returned"]
\* the call of tab t rethrows from its catch block
Threw(t) == [op EXCEPT ![t].pc = "idle", ![t].currentCount = 0,
                       ![t].outcome = "threw"]

TotalCalls == LET S == Kinds \X Clients \X AlertIds
                  RECURSIVE Sum(_)
                  Sum(T) == IF T = {} THEN 0
                            ELSE LET k == CHOOSE x \in T : TRUE
                                 IN calls[k] + Sum(T \ {k})
              IN Sum(S)

Begin(t, kind, u, a, pc) ==
  /\ op[t].pc = "idle"
  /\ TotalCalls < MaxOps
  /\ op' = [op EXCEPT ![t] = [kind |-> kind, pc |-> pc, user |-> u, alert |-> a,
                              currentCount |-> 0,
                              statusAtStart |-> alerts[a].status,
                              heldLive |-> FALSE, found |-> FALSE,
                              created |-> FALSE, outcome |-> "none"]]
  /\ calls' = [calls EXCEPT ![<<kind, u, a>>] = @ + 1]

\* getUser returned no user: `if (!user) throw new Error('Must be
\* authenticated ...')`, rethrown by the catch block; no store call is made
NoUser(t, kind, c, a) ==
  /\ op[t].pc = "idle"
  /\ TotalCalls < MaxOps
  /\ op' = [op EXCEPT ![t] = [idleOp EXCEPT !.kind = kind, !.alert = a,
                                           !.statusAtStart = alerts[a].status,
                                           !.outcome = "threw"]]
  /\ calls' = [calls EXCEPT ![<<kind, c, a>>] = @ + 1]

\* commitToAlert as it would run without the `if (!user)` test
CommitNoUser_Proceeds(t, c, a) ==
  /\ Begin(t, "commit", c, a, "c_insert")
  /\ UNCHANGED <<alerts, responses, response_cancellations, userCommitments, faults, alertList, sessionVars, syncVars, auxVars>>

\* commitToAlert called by a client with no authenticated identity
CommitNoUser(t, c, a) ==
  /\ NoUser(t, "commit", c, a)
  /\ UNCHANGED <<alerts, responses, response_cancellations, userCommitments, faults, alertList, sessionVars, syncVars, auxVars>>

\* cancelResponse called by a client with no authenticated identity
CancelNoUser(t, c, a) ==
  /\ NoUser(t, "cancel", c, a)
  /\ UNCHANGED <<alerts, responses, response_cancellations, userCommitments, faults, alertList, sessionVars, syncVars, auxVars>>

\* endResponse called by a client with no authenticated identity
EndNoUser(t, c, a) ==
  /\ NoUser(t, "end", c, a)
  /\ UNCHANGED <<alerts, responses, response_cancellations, userCommitments, faults, alertList, sessionVars, syncVars, auxVars>>

\* commitToAlert: getUser returned a user
StartCommit(t, u, a) ==
  /\ Begin(t, "commit", u, a, "c_check")
  /\ UNCHANGED <<alerts, responses, response_cancellations, userCommitments, faults, alertList, sessionVars, syncVars, auxVars>>

\* commitToAlert: select the caller's response on the alert (maybeSingle)
CommitCheck(t) ==
  /\ op[t].pc = "c_check"
  /\ IF ExistingId(responses, op[t].alert, op[t].user) # NULL
     THEN /\ userCommitments' = [userCommitments EXCEPT ![t] = @ \cup {op[t].alert}]
          /\ op' = Returned(t)
     ELSE /\ op' = [op EXCEPT ![t].pc = "c_create"]
          /\ UNCHANGED userCommitments
  /\ UNCHANGED <<alerts, responses, response_cancellations, calls, faults, alertList, sessionVars, syncVars, auxVars>>

\* commitToAlert: rpc create_response_safe, its SELECT; an existing row
\* makes the procedure return that row's id
CommitCreate(t) ==
  /\ op[t].pc = "c_create"
  /\ IF create_response_safe_select(responses, op[t].alert, op[t].user) # NULL
     THEN op' = [op EXCEPT ![t].pc = "c_incr"]
     ELSE op' = [op EXCEPT ![t].pc = "c_insert"]
  /\ UNCHANGED <<alerts, responses, response_cancellations, userCommitments, calls, faults, alertList, sessionVars, syncVars, auxVars>>

\* commitToAlert: rpc create_response_safe, its INSERT and return;
\* `if (data)` decides whether the increment is issued
CommitInsert(t) ==
  /\ op[t].pc = "c_insert"
  /\ LET res == create_response_safe_insert(responses, op[t].alert, op[t].user, "committed")
     IN /\ responses' = res.rows
        /\ IF res.data # NULL
           THEN /\ op' = [op EXCEPT ![t].pc = "c_incr",
                                     ![t].created = (res.rows # responses)]
                /\ UNCHANGED userCommitments
           ELSE /\ userCommitments' = [userCommitments EXCEPT ![t] = @ \cup {op[t].alert}]
                /\ op' = Returned(t)
  /\ UNCHANGED <<alerts, response_cancellations, calls, faults, alertList, sessionVars, syncVars, auxVars>>

\* commitToAlert: rpc increment_responder_count, then the local commitment
CommitIncrement(t) ==
  /\ op[t].pc = "c_incr"
  /\ alerts' = increment_responder_count(alerts, op[t].user, op[t].alert)
  /\ userCommitments' = [userCommitments EXCEPT ![t] = @ \cup {op[t].alert}]
  /\ op' = Returned(t)
  /\ UNCHANGED <<responses, response_cancellations, calls, faults, alertList, sessionVars, syncVars, auxVars>>

\* commitToAlert: rpc increment_responder_count fails; incrementError is
\* logged ("Don't throw here"), the local commitment is set and the call
\* returns
CommitIncrementError(t) ==
  /\ op[t].pc = "c_incr"
  /\ faults < MaxFaults
  /\ faults' = faults + 1
  /\ userCommitments' = [userCommitments EXCEPT ![t] = @ \cup {op[t].alert}]
  /\ op' = Returned(t)
  /\ UNCHANGED <<alerts, responses, response_cancellations, calls, alertList, sessionVars, syncVars, auxVars>>

\* cancelResponse: getUser returned a user
StartCancel(t, u, a) ==
  /\ Begin(t, "cancel", u, a, "x_rpc")
  /\ UNCHANGED <<alerts, responses, response_cancellations, userCommitments, faults, alertList, sessionVars, syncVars, auxVars>>

\* cancelResponse, tail of the try block: drop the local commitment
FinishCancel(t) ==
  /\ userCommitments' = [userCommitments EXCEPT ![t] = @ \ {op[t].alert}]
  /\ op' = Returned(t)

\* the call as it would run if a missing row were raised to the caller
CancelRpc_ThrowNotFound(t) ==
  /\ op[t].pc = "x_rpc"
  /\ IF cancel_response_safe_exists(responses, op[t].alert, op[t].user)
     THEN op' = [op EXCEPT ![t].pc = "x_rpc2", ![t].found = TRUE]
     ELSE op' = Threw(t)
  /\ UNCHANGED <<alerts, responses, response_cancellations, userCommitments, calls, faults, alertList, sessionVars, syncVars, auxVars>>

\* cancelResponse: rpc cancel_response_safe, its existence check; FALSE
\* is returned at once and `error || !success` starts the manual fallback
CancelRpc(t) ==
  /\ op[t].pc = "x_rpc"
  /\ IF cancel_response_safe_exists(responses, op[t].alert, op[t].user)
     THEN op' = [op EXCEPT ![t].pc = "x_rpc2", ![t].found = TRUE]
     ELSE op' = [op EXCEPT ![t].pc = "x_delete"]
  /\ UNCHANGED <<alerts, responses, response_cancellations, userCommitments, calls, faults, alertList, sessionVars, syncVars, auxVars>>

\* cancelResponse: rpc cancel_response_safe, the rest of the procedure; it
\* returns TRUE and the call finishes
CancelRpcBody(t) ==
  /\ op[t].pc = "x_rpc2"
  /\ LET res == cancel_response_safe_body(alerts, responses, response_cancellations,
                                          op[t].user, op[t].alert, op[t].user)
     IN /\ alerts' = res.alerts
        /\ responses' = res.rows
        /\ response_cancellations' = res.log
  /\ FinishCancel(t)
  /\ UNCHANGED <<calls, faults, alertList, sessionVars, syncVars, auxVars>>

\* cancelResponse: rpc cancel_response_safe fails (procedure unavailable,
\* transaction rolled back): nothing is written, the fallback runs
CancelRpcError(t) ==
  /\ op[t].pc = "x_rpc"
  /\ faults < MaxFaults
  /\ faults' = faults + 1
  /\ op' = [op EXCEPT ![t].pc = "x_delete"]
  /\ UNCHANGED <<alerts, responses, response_cancellations, userCommitments, calls, alertList, sessionVars, syncVars, auxVars>>

\* manual fallback STEP 1: DELETE FROM responses for (alert, caller)
ManualDelete(rs, caller, a, u) ==
  IF ResponsePolicy(caller, u) THEN rs \ ResponseRows(rs, a, u) ELSE rs

CancelDelete(t) ==
  /\ op[t].pc = "x_delete"
  /\ responses' = ManualDelete(responses, op[t].user, op[t].alert, op[t].user)
  /\ op' = [op EXCEPT ![t].pc = "x_log"]
  /\ UNCHANGED <<alerts, response_cancellations, userCommitments, calls, faults, alertList, sessionVars, syncVars, auxVars>>

\* manual fallback STEP 1 fails: deleteError is thrown to the caller
CancelDeleteError(t) ==
  /\ op[t].pc = "x_delete"
  /\ faults < MaxFaults
  /\ faults' = faults + 1
  /\ op' = Threw(t)
  /\ UNCHANGED <<alerts, responses, response_cancellations, userCommitments, calls, alertList, sessionVars, syncVars, auxVars>>

\* manual fallback STEP 2: INSERT INTO response_cancellations
CancelLog(t) ==
  /\ op[t].pc = "x_log"
  /\ response_cancellations' = response_cancellations \cup {<<op[t].alert, op[t].user>>}
  /\ op' = [op EXCEPT ![t].pc = "x_read"]
  /\ UNCHANGED <<alerts, responses, userCommitments, calls, faults, alertList, sessionVars, syncVars, auxVars>>

\* manual fallback STEP 3: read alerts.responder_count
CancelRead(t) ==
  /\ op[t].pc = "x_read"
  /\ op' = [op EXCEPT ![t].pc = "x_update",
                      ![t].currentCount = alerts[op[t].alert].responder_count]
  /\ UNCHANGED <<alerts, responses, response_cancellations, userCommitments, calls, faults, alertList, sessionVars, syncVars, auxVars>>

\* manual fallback STEP 4: newCount = Math.max(0, currentCount - 1); the
\* UPDATE sets the count, and status cancelled when newCount === 0
ManualUpdate(al, caller, a, currentCount) ==
  LET newCount == Greatest0(currentCount - 1)
  IN IF ~AlertUpdatePolicy(caller, al[a]) THEN al
     ELSE IF newCount = 0
     THEN [al EXCEPT ![a].responder_count = newCount, ![a].status = "cancelled"]
     ELSE [al EXCEPT ![a].responder_count = newCount]

CancelUpdate(t) ==
  /\ op[t].pc = "x_update"
  /\ alerts' = ManualUpdate(alerts, op[t].user, op[t].alert, op[t].currentCount)
  /\ FinishCancel(t)
  /\ UNCHANGED <<responses, response_cancellations, calls, faults, alertList, sessionVars, syncVars, auxVars>>

\* endResponse: getUser returned a user
StartEnd(t, u, a) ==
  /\ Begin(t, "end", u, a, "e_resp")
  /\ UNCHANGED <<alerts, responses, response_cancellations, userCommitments, faults, alertList, sessionVars, syncVars, auxVars>>

\* endResponse: UPDATE responses SET status = 'completed' for (alert, caller)
EndResponseRow(t) ==
  /\ op[t].pc = "e_resp"
  /\ responses' = {IF r \in ResponseRows(responses, op[t].alert, op[t].user)
                      /\ ResponsePolicy(op[t].user, r.responder_id)
                   THEN [r EXCEPT !.status = "completed"] ELSE r : r \in responses}
  /\ op' = [op EXCEPT ![t].pc = "e_alert",
                      ![t].heldLive = \E r \in ResponseRows(responses, op[t].alert, op[t].user) :
                                        r.status \in LiveStatus]
  /\ UNCHANGED <<alerts, response_cancellations, userCommitments, calls, faults, alertList, sessionVars, syncVars, auxVars>>

\* the UPDATE as it would run if it also reset the count
UpdateAlertStatus_ResetCount(al, caller, a, s) ==
  IF AlertUpdatePolicy(caller, al[a])
  THEN [al EXCEPT ![a].status = s, ![a].responder_count = 0] ELSE al

\* UPDATE alerts SET status = s WHERE id = a, issued by the client
UpdateAlertStatus(al, caller, a, s) ==
  IF AlertUpdatePolicy(caller, al[a]) THEN [al EXCEPT ![a].status = s] ELSE al

\* endResponse: UPDATE alerts SET status = 'resolved', then the local state
EndAlert(t) ==
  /\ op[t].pc = "e_alert"
  /\ alerts' = UpdateAlertStatus(alerts, op[t].user, op[t].alert, "resolved")
  /\ userCommitments' = [userCommitments EXCEPT ![t] = @ \ {op[t].alert}]
  /\ op' = Returned(t)
  /\ UNCHANGED <<responses, response_cancellations, calls, faults, alertList, sessionVars, syncVars, auxVars>>

(***************************************************************************)
(* useMonitoringSession.cancelAlert: one UPDATE, no identity check in the  *)
(* hook; the alerts UPDATE policy is the only authorization.               *)
(***************************************************************************)
cancelAlert(caller, a) ==
  /\ TotalCalls < MaxOps
  /\ calls' = [calls EXCEPT ![<<"cancelAlert", caller, a>>] = @ + 1]
  /\ alerts' = UpdateAlertStatus(alerts, caller, a, "cancelled")
  /\ UNCHANGED <<responses, response_cancellations, op, userCommitments, faults, alertList, sessionVars, syncVars, auxVars>>

(***************************************************************************)
(* useMonitoringSession: startSession, endSession, over the table          *)
(* monitoring_sessions and its partial unique indexes.                     *)
(***************************************************************************)

SessionIds == {"s1", "s2", "s3", "s4", "s5"}
\* values of crypto.randomUUID() for anonymous origins
AnonUuids == {"x1", "x2", "x3", "x4", "x5"}

\* ended_at: <<>> is NULL, <<n>> a timestamp
NoTime == <<>>

idleSop == [kind |-> "idle", pc |-> "idle", user |-> NULL, anonymousId |-> NULL,
            prior |-> NULL, outcome |-> "none", result |-> NULL, at |-> 0,
            sessionId |-> NULL, inserts |-> 0, closes |-> 0]

ActiveOfUser(ss, u) == {s \in ss : s.user_id = u /\ s.status = "active"}

\* idx_monitoring_sessions_active_user, idx_monitoring_sessions_active_anonymous
idx_monitoring_sessions_active(ss) ==
  \A s1, s2 \in ss :
    (s1.status = "active" /\ s2.status = "active" /\ s1 # s2) =>
      /\ ~(s1.user_id # NULL /\ s1.user_id = s2.user_id)
      /\ ~(s1.anonymous_id # NULL /\ s1.anonymous_id = s2.anonymous_id)

\* the INSERT as it would run without the partial unique indexes
InsertSession_NoIndex(ss, user_id, anonymous_id) ==
  LET id  == CHOOSE i \in SessionIds : \A s \in ss : s.id # i
      row == [id |-> id, user_id |-> user_id, anonymous_id |-> anonymous_id,
              status |-> "active", ended_at |-> NoTime]
  IN [ok |-> TRUE, rows |-> ss \cup {row}, id |-> id]

\* INSERT INTO monitoring_sessions (status active): [ok, rows, id];
\* ok = FALSE stands for error code 23505
InsertSession(ss, user_id, anonymous_id) ==
  LET id  == CHOOSE i \in SessionIds : \A s \in ss : s.id # i
      row == [id |-> id, user_id |-> user_id, anonymous_id |-> anonymous_id,
              status |-> "active", ended_at |-> NoTime]
  IN IF idx_monitoring_sessions_active(ss \cup {row})
     THEN [ok |-> TRUE, rows |-> ss \cup {row}, id |-> id]
     ELSE [ok |-> FALSE, rows |-> ss, id |-> NULL]

\* the cleanup as it would run if it set the status alone
CloseActiveOfUser_StatusOnly(ss, u, ts) ==
  {IF s \in ActiveOfUser(ss, u)
   THEN [s EXCEPT !.status = "completed"] ELSE s : s \in ss}

\* startSession's cleanup: UPDATE ... SET status = 'completed', ended_at
\* WHERE user_id = u AND status = 'active'
CloseActiveOfUser(ss, u, ts) ==
  {IF s \in ActiveOfUser(ss, u)
   THEN [s EXCEPT !.status = "completed", !.ended_at = <<ts>>] ELSE s : s \in ss}

\* the procedure as it would run without `AND ended_at IS NULL`
end_monitoring_session_safe_NoGuard(ss, id, status, ts) ==
  {IF s.id = id
   THEN [s EXCEPT !.status = status,
                  !.ended_at = IF s.ended_at = NoTime THEN <<ts>> ELSE s.ended_at]
   ELSE s : s \in ss}

\* end_monitoring_session_safe(p_session_id, p_status)
end_monitoring_session_safe(ss, id, status, ts) ==
  {IF s.id = id /\ s.ended_at = NoTime
   THEN [s EXCEPT !.status = status, !.ended_at = <<ts>>] ELSE s : s \in ss}

\* startSession: getUser; authenticated callers first look for a session
StartSession(t, caller) ==
  /\ sop[t].pc = "idle"
  /\ now < MaxClock
  /\ sop' = [sop EXCEPT ![t] =
       [kind |-> "start", pc |-> IF caller = Anon THEN "s_insert" ELSE "s_check",
        user |-> auth_uid(caller),
        anonymousId |-> IF caller = Anon
                        THEN CHOOSE x \in AnonUuids :
                               /\ \A s \in monitoring_sessions : s.anonymous_id # x
                               /\ \A r \in createdAlerts : r.anonymous_id # x
                               /\ \A t2 \in Tabs : sop[t2].anonymousId # x
                        ELSE NULL,
        prior |-> IF caller # Anon /\ ActiveOfUser(monitoring_sessions, caller) # {}
                  THEN (CHOOSE s \in ActiveOfUser(monitoring_sessions, caller) : TRUE).id
                  ELSE NULL,
        outcome |-> "none", result |-> NULL, at |-> now, sessionId |-> NULL,
        inserts |-> 0, closes |-> 0]]
  /\ now' = now + 1
  /\ UNCHANGED <<monitoring_sessions, currentSession, createdAlerts>>
  /\ UNCHANGED <<alertVars, syncVars, auxVars>>

\* the call returns `id` to its caller after setCurrentSession; n is the
\* number of INSERTs the returning step has issued (counted in inserts)
ReturnSession(t, id, n) ==
  /\ currentSession' = [currentSession EXCEPT ![t] = id]
  /\ sop' = [sop EXCEPT ![t].pc = "idle", ![t].outcome = "returned", ![t].result = id,
                        ![t].inserts = @ + n]

\* checkForExistingSession: an active session of the user is adopted and
\* returned by startSession
SessionCheck(t) ==
  /\ sop[t].pc = "s_check"
  /\ IF ActiveOfUser(monitoring_sessions, sop[t].user) # {}
     THEN ReturnSession(t, (CHOOSE s \in ActiveOfUser(monitoring_sessions, sop[t].user) : TRUE).id, 0)
     ELSE /\ sop' = [sop EXCEPT ![t].pc = "s_close"]
          /\ UNCHANGED currentSession
  /\ UNCHANGED <<monitoring_sessions, now, createdAlerts>>
  /\ UNCHANGED <<alertVars, syncVars, auxVars>>

\* startSession: proactive cleanup of the user's active sessions
SessionClose(t) ==
  /\ sop[t].pc \in {"s_close", "s_close2"}
  /\ monitoring_sessions' = CloseActiveOfUser(monitoring_sessions, sop[t].user, now)
  /\ sop' = [sop EXCEPT ![t].pc = IF sop[t].pc = "s_close" THEN "s_insert" ELSE "s_insert2",
                        ![t].closes = @ + 1]
  /\ UNCHANGED <<currentSession, now, createdAlerts>>
  /\ UNCHANGED <<alertVars, syncVars, auxVars>>

\* startSession: the first INSERT; code 23505 leads to cleanup and retry
SessionInsert(t) ==
  /\ sop[t].pc = "s_insert"
  /\ LET ins == InsertSession(monitoring_sessions, sop[t].user, sop[t].anonymousId)
     IN IF ins.ok
        THEN /\ monitoring_sessions' = ins.rows
             /\ ReturnSession(t, ins.id, 1)
        ELSE /\ sop' = [sop EXCEPT ![t].pc = IF sop[t].user # NULL THEN "s_close2"
                                             ELSE "s_insert2",
                                   ![t].inserts = @ + 1]
             /\ UNCHANGED <<monitoring_sessions, currentSession>>
  /\ UNCHANGED <<now, createdAlerts>>
  /\ UNCHANGED <<alertVars, syncVars, auxVars>>

\* the retry as it would run if its failure led to another cleanup and
\* retry
SessionInsertRetry_Again(t) ==
  /\ sop[t].pc = "s_insert2"
  /\ LET ins == InsertSession(monitoring_sessions, sop[t].user, sop[t].anonymousId)
     IN IF ins.ok
        THEN /\ monitoring_sessions' = ins.rows
             /\ ReturnSession(t, ins.id, 1)
        ELSE /\ sop' = [sop EXCEPT ![t].pc = "s_close2", ![t].inserts = @ + 1]
             /\ UNCHANGED <<monitoring_sessions, currentSession>>
  /\ UNCHANGED <<now, createdAlerts>>
  /\ UNCHANGED <<alertVars, syncVars, auxVars>>

\* startSession: the final retry; a failure is thrown to the caller
SessionInsertRetry(t) ==
  /\ sop[t].pc = "s_insert2"
  /\ LET ins == InsertSession(monitoring_sessions, sop[t].user, sop[t].anonymousId)
     IN IF ins.ok
        THEN /\ monitoring_sessions' = ins.rows
             /\ ReturnSession(t, ins.id, 1)
        ELSE /\ sop' = [sop EXCEPT ![t].pc = "idle", ![t].outcome = "threw",
                                   ![t].inserts = @ + 1]
             /\ UNCHANGED <<monitoring_sessions, currentSession>>
  /\ UNCHANGED <<now, createdAlerts>>
  /\ UNCHANGED <<alertVars, syncVars, auxVars>>

\* endSession(sessionId, status): rpc end_monitoring_session_safe, then
\* setCurrentSession(null); errors are logged, never rethrown.  sessionId
\* is a session the tab holds: its currentSession or the one its last call
\* returned or ended.
EndSession(t, id, status) ==
  /\ sop[t].pc = "idle"
  /\ id # NULL /\ id \in {currentSession[t], sop[t].result}
  /\ now < MaxClock
  /\ monitoring_sessions' =
       end_monitoring_session_safe(monitoring_sessions, id, status, now)
  /\ currentSession' = [currentSession EXCEPT ![t] = NULL]
  /\ sop' = [sop EXCEPT ![t].kind = "end", ![t].prior = NULL,
                        ![t].outcome = "returned", ![t].result = id, ![t].at = now,
                        ![t].sessionId = NULL]
  /\ now' = now + 1
  /\ UNCHANGED createdAlerts
  /\ UNCHANGED <<alertVars, syncVars, auxVars>>

(***************************************************************************)
(* useMonitoringSession.createAlert(sessionId, locationData).               *)
(***************************************************************************)

\* ids of the alert rows createAlert inserts (gen_random_uuid())
CreatedIds == {"n1", "n2", "n3", "n4", "n5"}

\* a value of crypto.randomUUID() no row and no call in flight carries
FreshUuid ==
  CHOOSE x \in AnonUuids :
    /\ \A s \in monitoring_sessions : s.anonymous_id # x
    /\ \A r \in createdAlerts : r.anonymous_id # x
    /\ \A t2 \in Tabs : sop[t2].anonymousId # x

\* the assignment as it would run if the id were generated for every caller
createAlert_anonymousId_Always(user, uuid) == uuid

\* createAlert: `const anonymousId = user?.id ? null : crypto.randomUUID()`
createAlert_anonymousId(user, uuid) == IF user # NULL THEN NULL ELSE uuid

\* create_alert_with_notification(p_session_id, p_user_id, p_anonymous_id,
\* ...): INSERT INTO alerts ... RETURNING id; the result is [rows, id].
\* The hook's fallback INSERT writes the same row.
create_alert_with_notification(rows, session_id, user_id, anonymous_id) ==
  LET id == CHOOSE i \in CreatedIds : \A r \in rows : r.id # i
  IN [rows |-> rows \cup {[id |-> id, session_id |-> session_id, user_id |-> user_id,
                           anonymous_id |-> anonymous_id, status |-> "active",
                           responder_count |-> 0]},
      id |-> id]

\* createAlert: getUser and the choice of anonymousId.  sessionId is null
\* or a session the tab holds, started under the caller's identity.
BeginCreateAlert(t, caller, sessionId) ==
  /\ sop[t].pc = "idle"
  /\ now < MaxClock
  /\ sessionId \in {NULL, currentSession[t], sop[t].result}
  /\ sessionId # NULL =>
       \E s \in monitoring_sessions : s.id = sessionId /\ s.user_id = auth_uid(caller)
  /\ sop' = [sop EXCEPT ![t] =
       [kind |-> "createAlert", pc |-> "a_rpc", user |-> auth_uid(caller),
        anonymousId |-> createAlert_anonymousId(auth_uid(caller), FreshUuid),
        prior |-> NULL, outcome |-> "none", result |-> NULL, at |-> now,
        sessionId |-> sessionId, inserts |-> 0, closes |-> 0]]
  /\ now' = now + 1
  /\ UNCHANGED <<monitoring_sessions, currentSession, createdAlerts>>

\* a createAlert call made outside the views followed below
StartCreateAlert(t, caller, sessionId) ==
  /\ BeginCreateAlert(t, caller, sessionId)
  /\ UNCHANGED <<alertVars, syncVars, auxVars>>

\* createAlert: rpc create_alert_with_notification and the read of the new
\* row; with `if (sessionId)` false the alert is returned at once
CreateAlertRpc(t) ==
  /\ sop[t].pc = "a_rpc"
  /\ LET res == create_alert_with_notification(createdAlerts, sop[t].sessionId,
                                                sop[t].user, sop[t].anonymousId)
     IN /\ createdAlerts' = res.rows
        /\ sop' = IF sop[t].sessionId # NULL
                  THEN [sop EXCEPT ![t].pc = "a_end", ![t].result = res.id]
                  ELSE [sop EXCEPT ![t].pc = "idle", ![t].result = res.id,
                                   ![t].outcome = "returned"]
  /\ UNCHANGED <<monitoring_sessions, currentSession, now>>
  /\ UNCHANGED <<alertVars, syncVars, auxVars>>

\* createAlert: the rpc has inserted the row and returned its id, the read
\* of the new row fails: `if (fetchError) throw fetchError`
CreateAlertReadError(t) ==
  /\ sop[t].pc = "a_rpc"
  /\ faults < MaxFaults
  /\ faults' = faults + 1
  /\ LET res == create_alert_with_notification(createdAlerts, sop[t].sessionId,
                                                sop[t].user, sop[t].anonymousId)
     IN /\ createdAlerts' = res.rows
        /\ sop' = [sop EXCEPT ![t].pc = "idle", ![t].result = res.id,
                              ![t].outcome = "threw"]
  /\ UNCHANGED <<monitoring_sessions, currentSession, now>>
  /\ UNCHANGED <<alerts, responses, response_cancellations, op, userCommitments,
                 calls, alertList>>
  /\ UNCHANGED <<syncVars, auxVars>>

\* createAlert: the rpc fails and the fallback INSERT fails as well:
\* `throw fallbackResult.error`, no row written
CreateAlertInsertError(t) ==
  /\ sop[t].pc = "a_rpc"
  /\ faults < MaxFaults
  /\ faults' = faults + 1
  /\ sop' = [sop EXCEPT ![t].pc = "idle", ![t].outcome = "threw"]
  /\ UNCHANGED <<monitoring_sessions, currentSession, now, createdAlerts>>
  /\ UNCHANGED <<alerts, responses, response_cancellations, op, userCommitments,
                 calls, alertList>>
  /\ UNCHANGED <<syncVars, auxVars>>

\* createAlert: `await endSession(sessionId, 'emergency')`, then the alert
\* is returned
CreateAlertEndSession(t) ==
  /\ sop[t].pc = "a_end"
  /\ monitoring_sessions' =
       end_monitoring_session_safe(monitoring_sessions, sop[t].sessionId, "emergency", now)
  /\ currentSession' = [currentSession EXCEPT ![t] = NULL]
  /\ sop' = [sop EXCEPT ![t].pc = "idle", ![t].outcome = "returned"]
  /\ UNCHANGED <<now, createdAlerts>>
  /\ UNCHANGED <<alertVars, syncVars, auxVars>>

\* createAlert: the rpc inside endSession fails; endSession logs the error
\* in its catch block and returns, and createAlert returns the alert
CreateAlertEndSessionError(t) ==
  /\ sop[t].pc = "a_end"
  /\ faults < MaxFaults
  /\ faults' = faults + 1
  /\ sop' = [sop EXCEPT ![t].pc = "idle", ![t].outcome = "returned"]
  /\ UNCHANGED <<monitoring_sessions, currentSession, now, createdAlerts>>
  /\ UNCHANGED <<alerts, responses, response_cancellations, op, userCommitments,
                 calls, alertList>>
  /\ UNCHANGED <<syncVars, auxVars>>

NextSession ==
  \/ \E t \in Tabs, c \in Callers : StartSession(t, c)
  \/ \E t \in Tabs, c \in Callers, id \in SessionIds \cup {NULL} : StartCreateAlert(t, c, id)
  \/ \E t \in Tabs : CreateAlertRpc(t)
  \/ \E t \in Tabs : CreateAlertReadError(t)
  \/ \E t \in Tabs : CreateAlertInsertError(t)
  \/ \E t \in Tabs : CreateAlertEndSession(t)
  \/ \E t \in Tabs : CreateAlertEndSessionError(t)
  \/ \E t \in Tabs : SessionCheck(t)
  \/ \E t \in Tabs : SessionClose(t)
  \/ \E t \in Tabs : SessionInsert(t)
  \/ \E t \in Tabs : SessionInsertRetry(t)
  \/ \E t \in Tabs, id \in SessionIds, st \in {"completed", "emergency"} :
       EndSession(t, id, st)

(***************************************************************************)
(* Specification of the commitment coordinator.  The alerts of AlertIds    *)
(* have been created (createAlert: status active, responder_count 0, the   *)
(* origin an authenticated user or an anonymous id).                       *)
(***************************************************************************)
\* the anonymous id a client's createAlert generates (crypto.randomUUID())
AnonymousIdOf(client) == IF client = Anon THEN "anon-uuid" ELSE "anon2-uuid"

NewAlert(origin) ==
  [user_id |-> IF origin = Anon THEN NULL ELSE origin,
   anonymous_id |-> IF origin = Anon THEN AnonymousIdOf(origin) ELSE NULL,
   status |-> "active", responder_count |-> 0]

\* the columns general_location and precise_location of the alerts, set at
\* creation and never updated
general_location == [a \in AlertIds |-> "general"]
precise_location == [a \in AlertIds |-> "precise"]

\* fetchAlerts, its filtered query: select('*') of the rows whose status
\* is listed
ListedStatus == {"active", "responded", "cancelled"}
ListedAlerts(al) ==
  {[id |-> a, status |-> al[a].status, responder_count |-> al[a].responder_count,
    general_location |-> general_location[a],
    precise_location |-> precise_location[a]] :
     a \in {x \in AlertIds : al[x].status \in ListedStatus}}

\* ResponderDashboard: the view built from the hook's list and commitment
\* map (commitments: the set of alert ids mapped to true)
activeAlerts(list, commitments) ==
  {[id |-> row.id, generalLocation |-> row.general_location,
    preciseLocation |-> row.precise_location, status |-> row.status,
    isCommitted |-> row.id \in commitments] :
     row \in {x \in list : x.status \in {"active", "responded"}}}

\* the query as it would run without its filter on the response status
fetchUserCommitments_AnyStatus(rs, u) ==
  {r.alert_id : r \in {x \in rs : x.responder_id = u}}

\* fetchUserCommitments, its query and the map built from it: the alerts
\* on which user u has a response with status committed, en_route, arrived
fetchUserCommitments(rs, u) ==
  {r.alert_id : r \in {x \in rs : x.responder_id = u /\ x.status \in LiveStatus}}

\* fetchAlerts of the mounted instance of tab t runs from its query to its
\* end with no store step in between and succeeds: setAlerts(data)
\* replaces the list, setConnectionStatus('connected'), then
\* fetchUserCommitments replaces the commitment map, unless getUser
\* returns no user (the user is the one the tab's last call saw)
FetchAlerts(t) ==
  /\ isMounted
  /\ alertList' = ListedAlerts(alerts)
  /\ connectionStatus' = "connected"
  /\ lastFetch' = "ok"
  /\ IF op[t].user \in Users
     THEN userCommitments' =
            [userCommitments EXCEPT ![t] = fetchUserCommitments(responses, op[t].user)]
     ELSE UNCHANGED userCommitments
  /\ UNCHANGED <<alerts, responses, response_cancellations, op, calls, faults>>
  /\ UNCHANGED <<sessionVars, auxVars>>
  /\ UNCHANGED <<isMounted, pollingTimer, debounceTimer, safetyTimer, setup, chan,
                 subscriptionsRef, fetches, everSubscribed, degraded, pollFlip>>

(***************************************************************************)
(* useAlerts, live synchronization of one mounted instance: its two push   *)
(* subscriptions (tables alerts and responses), the fallback polling       *)
(* interval, the debounce timeout, the 3 s safety-net timeout and its      *)
(* fetchAlerts calls, each split at its store query.  The instance is a    *)
(* dashboard other than the tabs above; the store is changed by other      *)
(* clients.                                                                *)
(***************************************************************************)

\* number of fetchAlerts calls of the instance that may be in flight at once
MaxInflight == 1

\* the push subscriptions the mount effect creates
Subs == {"alerts", "responses"}
\* the states a subscription reports that its status callback acts on
ChanStatus == {"SUBSCRIBED", "CLOSED", "CHANNEL_ERROR"}

\* useState('disconnected'): the value the closures of the mount effect
\* (dependency list []) see as connectionStatus
InitialConnectionStatus == "disconnected"

\* fetchAlerts() called on a mounted instance: a call that has passed its
\* first isMountedRef test and has not issued its filtered query yet
StartFetch(fs) == Append(fs, [read |-> FALSE, data |-> {}])

\* fs without its i-th element
RemoveAt(fs, i) == [j \in 1..(Len(fs) - 1) |-> IF j < i THEN fs[j] ELSE fs[j + 1]]

\* startPollingFallback()
startPollingFallback == pollingTimer' = TRUE
\* stopPollingFallback()
stopPollingFallback == pollingTimer' = FALSE

\* setupSubscriptions after its `await supabase.auth.getUser()`: both
\* channels are created and subscribed and stored in subscriptionsRef;
\* isMountedRef is not consulted
SetupSubscriptions ==
  /\ setup = "getUser"
  /\ setup' = "done"
  /\ chan' = [s \in Subs |-> "joining"]
  /\ subscriptionsRef' = Subs
  /\ UNCHANGED <<isMounted, connectionStatus, pollingTimer, debounceTimer, safetyTimer,
                 fetches, everSubscribed, degraded, pollFlip, lastFetch>>
  /\ UNCHANGED <<alertVars, sessionVars, auxVars>>

\* the status callback as it would run if CHANNEL_ERROR and CLOSED did not
\* start the fallback polling
SubscriptionStatus_NoFallback(s, st) ==
  /\ chan[s] \in {"joining"} \cup ChanStatus
  /\ IF ~isMounted
     THEN UNCHANGED <<chan, connectionStatus, pollingTimer, everSubscribed, degraded>>
     ELSE /\ chan' = [chan EXCEPT ![s] = st]
          /\ IF st = "SUBSCRIBED"
             THEN /\ connectionStatus' = "connected"
                  /\ stopPollingFallback
                  /\ everSubscribed' = TRUE
                  /\ degraded' = FALSE
             ELSE /\ connectionStatus' = "disconnected"
                  /\ degraded' = TRUE
                  /\ UNCHANGED <<everSubscribed, pollingTimer>>
  /\ UNCHANGED <<isMounted, debounceTimer, safetyTimer, setup, subscriptionsRef,
                 fetches, pollFlip, lastFetch>>
  /\ UNCHANGED <<alertVars, sessionVars, auxVars>>

\* the status callback of subscription s is called with status st;
\* chan[s] is the last status the callback has acted on (it returns at
\* once when the instance is unmounted)
SubscriptionStatus(s, st) ==
  /\ chan[s] \in {"joining"} \cup ChanStatus
  /\ IF ~isMounted
     THEN UNCHANGED <<chan, connectionStatus, pollingTimer, everSubscribed, degraded>>
     ELSE /\ chan' = [chan EXCEPT ![s] = st]
          /\ IF st = "SUBSCRIBED"
             THEN /\ connectionStatus' = "connected"
                  /\ stopPollingFallback
                  /\ everSubscribed' = TRUE
                  /\ degraded' = FALSE
             ELSE /\ connectionStatus' = "disconnected"
                  /\ startPollingFallback
                  /\ degraded' = TRUE
                  /\ UNCHANGED everSubscribed
  /\ UNCHANGED <<isMounted, debounceTimer, safetyTimer, setup, subscriptionsRef,
                 fetches, pollFlip, lastFetch>>
  /\ UNCHANGED <<alertVars, sessionVars, auxVars>>

\* the body of the postgres_changes callback of subscription s:
\* setConnectionStatus('reconnecting') and fetchAlerts(), whatever else is
\* in flight
PostgresChangesHandler(s) ==
  /\ chan[s] = "SUBSCRIBED"
  /\ IF isMounted
     THEN /\ connectionStatus' = "reconnecting"
          /\ fetches' = StartFetch(fetches)
     ELSE UNCHANGED <<connectionStatus, fetches>>
  /\ UNCHANGED <<isMounted, pollingTimer, debounceTimer, safetyTimer, setup, chan,
                 subscriptionsRef, everSubscribed, degraded, pollFlip, lastFetch>>
  /\ UNCHANGED <<alertVars, sessionVars, auxVars>>

\* the postgres_changes callback of subscription s: delivery is best
\* effort and the feed carries the changes of every row of its table
PostgresChanges(s) ==
  /\ Len(fetches) < MaxInflight
  /\ PostgresChangesHandler(s)

\* number of fetchAlerts calls in flight at once where their overlap is
\* followed
MaxOverlap == 2

\* the callback while earlier fetchAlerts calls are still in flight
PostgresChangesOverlapping(s) ==
  /\ Len(fetches) < MaxOverlap
  /\ PostgresChangesHandler(s)

\* the safety-net timeout fires 3 s after mount; its closure tests the
\* connectionStatus of the render that ran the effect
SafetyNetTimer ==
  /\ safetyTimer
  /\ safetyTimer' = FALSE
  /\ IF isMounted /\ InitialConnectionStatus # "connected"
     THEN startPollingFallback
     ELSE UNCHANGED pollingTimer
  /\ UNCHANGED <<isMounted, connectionStatus, debounceTimer, setup, chan,
                 subscriptionsRef, fetches, everSubscribed, degraded, pollFlip, lastFetch>>
  /\ UNCHANGED <<alertVars, sessionVars, auxVars>>

\* one tick of the polling interval
PollingTick ==
  /\ pollingTimer
  /\ Len(fetches) < MaxInflight
  /\ IF isMounted
     THEN /\ connectionStatus' = "reconnecting"
          /\ fetches' = StartFetch(fetches)
          /\ pollFlip' = ~pollFlip
     ELSE UNCHANGED <<connectionStatus, fetches, pollFlip>>
  /\ UNCHANGED <<isMounted, pollingTimer, debounceTimer, safetyTimer, setup, chan,
                 subscriptionsRef, everSubscribed, degraded, lastFetch>>
  /\ UNCHANGED <<alertVars, sessionVars, auxVars>>

\* debouncedFetchAlerts(), the last statement of the instance's own
\* commitToAlert, cancelResponse and endResponse calls: the pending
\* timeout is replaced by a new one
DebouncedFetchAlerts ==
  /\ debounceTimer' = TRUE
  /\ ~debounceTimer
  /\ UNCHANGED <<isMounted, connectionStatus, pollingTimer, safetyTimer, setup, chan,
                 subscriptionsRef, fetches, everSubscribed, degraded, pollFlip, lastFetch>>
  /\ UNCHANGED <<alertVars, sessionVars, auxVars>>

\* the debounce timeout fires after 300 ms
DebounceFire ==
  /\ debounceTimer
  /\ Len(fetches) < MaxInflight
  /\ debounceTimer' = FALSE
  /\ IF isMounted THEN fetches' = StartFetch(fetches) ELSE UNCHANGED fetches
  /\ UNCHANGED <<isMounted, connectionStatus, pollingTimer, safetyTimer, setup, chan,
                 subscriptionsRef, everSubscribed, degraded, pollFlip, lastFetch>>
  /\ UNCHANGED <<alertVars, sessionVars, auxVars>>

\* fetchAlerts: the filtered query reads the store
FetchQuery(i) ==
  /\ i \in 1..Len(fetches)
  /\ ~fetches[i].read
  /\ fetches' = [fetches EXCEPT ![i] = [read |-> TRUE, data |-> ListedAlerts(alerts)]]
  /\ UNCHANGED <<isMounted, connectionStatus, pollingTimer, debounceTimer, safetyTimer,
                 setup, chan, subscriptionsRef, everSubscribed, degraded, pollFlip, lastFetch>>
  /\ UNCHANGED <<alertVars, sessionVars, auxVars>>

\* fetchAlerts: the query has returned; unless the instance unmounted
\* meanwhile, setAlerts(data) and setConnectionStatus('connected')
FetchApply(i) ==
  /\ i \in 1..Len(fetches)
  /\ fetches[i].read
  /\ fetches' = RemoveAt(fetches, i)
  /\ IF isMounted
     THEN /\ alertList' = fetches[i].data
          /\ connectionStatus' = "connected"
          /\ lastFetch' = "ok"
     ELSE UNCHANGED <<alertList, connectionStatus, lastFetch>>
  /\ UNCHANGED <<isMounted, pollingTimer, debounceTimer, safetyTimer, setup, chan,
                 subscriptionsRef, everSubscribed, degraded, pollFlip>>
  /\ UNCHANGED <<alerts, responses, response_cancellations, op, userCommitments,
                 calls, faults>>
  /\ UNCHANGED <<sessionVars, auxVars>>

\* fetchAlerts: the query fails after its retries; the catch block sets
\* connectionStatus disconnected
FetchError(i) ==
  /\ i \in 1..Len(fetches)
  /\ ~fetches[i].read
  /\ faults < MaxFaults
  /\ faults' = faults + 1
  /\ fetches' = RemoveAt(fetches, i)
  /\ IF isMounted
     THEN /\ connectionStatus' = "disconnected"
          /\ lastFetch' = "failed"
     ELSE UNCHANGED <<connectionStatus, lastFetch>>
  /\ UNCHANGED <<isMounted, pollingTimer, debounceTimer, safetyTimer, setup, chan,
                 subscriptionsRef, everSubscribed, degraded, pollFlip>>
  /\ UNCHANGED <<alerts, responses, response_cancellations, op, userCommitments,
                 calls, alertList>>
  /\ UNCHANGED <<sessionVars, auxVars>>

\* the effect's cleanup on unmount: isMountedRef.current = false, then
\* cleanup(): unsubscribe what subscriptionsRef holds, clear the debounce
\* timeout and the polling interval
Unmount ==
  /\ isMounted
  /\ isMounted' = FALSE
  /\ chan' = [s \in Subs |-> IF s \in subscriptionsRef THEN "unsubscribed" ELSE chan[s]]
  /\ subscriptionsRef' = {}
  /\ debounceTimer' = FALSE
  /\ pollingTimer' = FALSE
  /\ degraded' = FALSE
  /\ UNCHANGED <<connectionStatus, safetyTimer, setup, fetches, everSubscribed, pollFlip, lastFetch>>
  /\ UNCHANGED <<alertVars, sessionVars, auxVars>>

\* the state the mount effect leaves: the initial fetchAlerts() is in
\* flight, setupSubscriptions awaits getUser, the safety-net timeout is
\* scheduled
InitSync ==
  /\ isMounted = TRUE
  /\ connectionStatus = InitialConnectionStatus
  /\ pollingTimer = FALSE
  /\ debounceTimer = FALSE
  /\ safetyTimer = TRUE
  /\ setup = "getUser"
  /\ chan = [s \in Subs |-> "none"]
  /\ subscriptionsRef = {}
  /\ fetches = StartFetch(<<>>)
  /\ everSubscribed = FALSE
  /\ degraded = FALSE
  /\ pollFlip = FALSE
  /\ lastFetch = "none"

NextChannel ==
  \/ SetupSubscriptions
  \/ \E s \in Subs, st \in ChanStatus : SubscriptionStatus(s, st)
  \/ \E s \in Subs : PostgresChanges(s)
  \/ SafetyNetTimer
  \/ PollingTick
  \/ DebouncedFetchAlerts
  \/ DebounceFire
  \/ \E i \in 1..MaxInflight : FetchQuery(i)
  \/ \E i \in 1..MaxInflight : FetchApply(i)
  \/ \E i \in 1..MaxInflight : FetchError(i)
  \/ Unmount
  \/ \E a \in AlertIds : cancelAlert(Anon, a)

\* the instance with its fetchAlerts calls overlapping, the store changed
\* by cancelAlert calls of an anonymous requester
NextOverlap ==
  \/ SetupSubscriptions
  \/ \E s \in Subs : SubscriptionStatus(s, "SUBSCRIBED")
  \/ \E s \in Subs : PostgresChangesOverlapping(s)
  \/ \E i \in 1..MaxOverlap : FetchQuery(i)
  \/ \E i \in 1..MaxOverlap : FetchApply(i)
  \/ \E a \in AlertIds : cancelAlert(Anon, a)

InitAlerts ==
  /\ alerts \in [AlertIds -> {NewAlert(o) : o \in Callers}]
  /\ responses = {}
  /\ response_cancellations = {}
  /\ op = [t \in Tabs |-> idleOp]
  /\ userCommitments = [t \in Tabs |-> {}]
  /\ calls = [k \in Kinds \X Clients \X AlertIds |-> 0]
  /\ faults = 0
  /\ alertList = {}

InitSessions ==
  /\ monitoring_sessions = {}
  /\ sop = [t \in Tabs |-> idleSop]
  /\ currentSession = [t \in Tabs |-> NULL]
  /\ now = 1
  /\ createdAlerts = {}

(***************************************************************************)
(* withRetry(operation, maxRetries, delay) and its callers.  A supabase    *)
(* query resolves with {data, error}; the promise itself rejects only when *)
(* the operation throws.                                                   *)
(***************************************************************************)
\* number of withRetry calls followed from start to end
MaxCalls == 2

\* withRetry's default parameters
withRetry_maxRetries == 3
withRetry_delay == 1000

\* the parameters fetchAlerts passes for the alerts query
fetchAlerts_maxRetries == 5
fetchAlerts_delay == 800

\* the callers of withRetry and the parameters they pass
RetryCallers == {"fetchAlerts", "fetchUserCommitments", "createAlert"}
maxRetriesOf(caller) ==
  IF caller = "fetchAlerts" THEN fetchAlerts_maxRetries ELSE withRetry_maxRetries
delayOf(caller) ==
  IF caller = "fetchAlerts" THEN fetchAlerts_delay ELSE withRetry_delay

idleRetry == [pc |-> "idle", caller |-> "none", maxRetries |-> 0, delay |-> 0,
              attempt |-> 0, sleep |-> 0, slept |-> 0, result |-> "none",
              report |-> "none", done |-> 0]

\* the caller enters withRetry: the loop starts with attempt = 1
WithRetry(caller) ==
  /\ retry.pc \in {"idle", "reported"}
  /\ retry.done < MaxCalls
  /\ retry' = [idleRetry EXCEPT !.pc = "attempt", !.caller = caller,
                                !.maxRetries = maxRetriesOf(caller),
                                !.delay = delayOf(caller), !.attempt = 1,
                                !.done = retry.done]
  /\ UNCHANGED <<alertVars, sessionVars, syncVars, monitorVars, emergencyVars>>

\* `return await operation()`: the operation resolves, with rows or with
\* the error the store returned; withRetry returns the value as it is
OperationResolves(result) ==
  /\ retry.pc = "attempt"
  /\ retry' = [retry EXCEPT !.pc = "returned", !.result = result]
  /\ UNCHANGED <<alertVars, sessionVars, syncVars, monitorVars, emergencyVars>>

\* the operation throws: rethrown at the last attempt, otherwise
\* setTimeout(resolve, delay * attempt)
OperationRejects ==
  /\ retry.pc = "attempt"
  /\ retry' = IF retry.attempt = retry.maxRetries
              THEN [retry EXCEPT !.pc = "returned", !.result = "thrown"]
              ELSE [retry EXCEPT !.pc = "sleep", !.sleep = retry.delay * retry.attempt]
  /\ UNCHANGED <<alertVars, sessionVars, syncVars, monitorVars, emergencyVars>>

\* the timeout fires and the loop goes to its next attempt
RetrySleepElapsed ==
  /\ retry.pc = "sleep"
  /\ retry' = [retry EXCEPT !.pc = "attempt", !.attempt = @ + 1,
                            !.slept = @ + retry.sleep]
  /\ UNCHANGED <<alertVars, sessionVars, syncVars, monitorVars, emergencyVars>>

\* the caller's continuation: `if (error) throw error`, and a thrown error
\* reaches the same catch block; rows are applied
RetryReport ==
  /\ retry.pc = "returned"
  /\ retry' = [retry EXCEPT !.pc = "reported",
                            !.report = IF retry.result = "data" THEN "ok" ELSE "failed",
                            !.done = @ + 1]
  /\ UNCHANGED <<alertVars, sessionVars, syncVars, monitorVars, emergencyVars>>

InitRetry == retry = idleRetry

NextRetry ==
  \/ \E c \in RetryCallers : WithRetry(c)
  \/ \E r \in {"data", "error"} : OperationResolves(r)
  \/ OperationRejects
  \/ RetrySleepElapsed
  \/ RetryReport

(***************************************************************************)
(* useMonitoring: the check-in countdown.                                  *)
(***************************************************************************)
\* number of respondToCheckIn calls followed
MaxCheckins == 2
\* number of startMonitoring calls followed
MaxRuns == 2

\* seconds of the monitoring phase, of the prompt and of the final warning
monitoringSeconds == 60
promptSeconds == 5
finalWarningSeconds == 10

Phases == {"idle", "monitoring", "prompting", "final_warning", "alert_sent"}

\* setOnAlert(callback)
SetOnAlert ==
  /\ ~onAlertCallback
  /\ onAlertCallback' = TRUE
  /\ UNCHANGED <<state, intervalRef, alertTriggeredRef, callbackCalls, undisturbed, runs>>
  /\ UNCHANGED <<alertVars, sessionVars, syncVars, retryVars, emergencyVars>>

\* startMonitoring as it would run without arming the interval
StartMonitoring_NoInterval ==
  /\ runs < MaxRuns
  /\ alertTriggeredRef' = FALSE
  /\ state' = [state EXCEPT !.isActive = TRUE, !.phase = "monitoring",
                            !.timeRemaining = monitoringSeconds]
  /\ intervalRef' = FALSE
  /\ callbackCalls' = 0
  /\ undisturbed' = TRUE
  /\ runs' = runs + 1
  /\ UNCHANGED onAlertCallback
  /\ UNCHANGED <<alertVars, sessionVars, syncVars, retryVars, emergencyVars>>

\* startMonitoring: reset the flag, phase monitoring with 60 s, replace the
\* interval
StartMonitoring ==
  /\ runs < MaxRuns
  /\ alertTriggeredRef' = FALSE
  /\ state' = [state EXCEPT !.isActive = TRUE, !.phase = "monitoring",
                            !.timeRemaining = monitoringSeconds]
  /\ intervalRef' = TRUE
  /\ callbackCalls' = 0
  /\ undisturbed' = TRUE
  /\ runs' = runs + 1
  /\ UNCHANGED onAlertCallback
  /\ UNCHANGED <<alertVars, sessionVars, syncVars, retryVars, emergencyVars>>

\* the tick as it would run without the once-only flag
MonitoringTick_NoFlag ==
  /\ intervalRef
  /\ LET newTime == state.timeRemaining - 1
     IN IF state.phase = "alert_sent" /\ state.timeRemaining <= 0
        THEN UNCHANGED <<state, alertTriggeredRef, callbackCalls>>
        ELSE IF newTime = promptSeconds /\ state.phase = "monitoring"
        THEN /\ state' = [state EXCEPT !.phase = "prompting", !.timeRemaining = newTime]
             /\ UNCHANGED <<alertTriggeredRef, callbackCalls>>
        ELSE IF newTime <= 0 /\ state.phase \in {"monitoring", "prompting"}
        THEN /\ state' = [state EXCEPT !.phase = "final_warning",
                                       !.timeRemaining = finalWarningSeconds]
             /\ UNCHANGED <<alertTriggeredRef, callbackCalls>>
        ELSE IF newTime <= 0 /\ state.phase = "final_warning"
        THEN /\ IF onAlertCallback
                THEN /\ alertTriggeredRef' = TRUE
                     /\ callbackCalls' = callbackCalls + 1
                ELSE UNCHANGED <<alertTriggeredRef, callbackCalls>>
             /\ state' = [state EXCEPT !.phase = "alert_sent", !.timeRemaining = 0]
        ELSE /\ state' = [state EXCEPT !.timeRemaining = newTime]
             /\ UNCHANGED <<alertTriggeredRef, callbackCalls>>
  /\ UNCHANGED <<intervalRef, onAlertCallback, undisturbed, runs>>
  /\ UNCHANGED <<alertVars, sessionVars, syncVars, retryVars, emergencyVars>>

\* the interval's callback, once per second while the interval is armed
MonitoringTick ==
  /\ intervalRef
  /\ LET newTime == state.timeRemaining - 1
     IN IF state.phase = "alert_sent" /\ state.timeRemaining <= 0
        THEN UNCHANGED <<state, alertTriggeredRef, callbackCalls>>
        ELSE IF newTime = promptSeconds /\ state.phase = "monitoring"
        THEN /\ state' = [state EXCEPT !.phase = "prompting", !.timeRemaining = newTime]
             /\ UNCHANGED <<alertTriggeredRef, callbackCalls>>
        ELSE IF newTime <= 0 /\ state.phase \in {"monitoring", "prompting"}
        THEN /\ state' = [state EXCEPT !.phase = "final_warning",
                                       !.timeRemaining = finalWarningSeconds]
             /\ UNCHANGED <<alertTriggeredRef, callbackCalls>>
        ELSE IF newTime <= 0 /\ state.phase = "final_warning"
        THEN /\ IF onAlertCallback /\ ~alertTriggeredRef
                THEN /\ alertTriggeredRef' = TRUE
                     /\ callbackCalls' = callbackCalls + 1
                ELSE UNCHANGED <<alertTriggeredRef, callbackCalls>>
             /\ state' = [state EXCEPT !.phase = "alert_sent", !.timeRemaining = 0]
        ELSE /\ state' = [state EXCEPT !.timeRemaining = newTime]
             /\ UNCHANGED <<alertTriggeredRef, callbackCalls>>
  /\ UNCHANGED <<intervalRef, onAlertCallback, undisturbed, runs>>
  /\ UNCHANGED <<alertVars, sessionVars, syncVars, retryVars, emergencyVars>>

\* stopMonitoring: clear the interval, phase idle
StopMonitoring ==
  /\ state.isActive
  /\ intervalRef' = FALSE
  /\ state' = [state EXCEPT !.isActive = FALSE, !.phase = "idle",
                            !.timeRemaining = monitoringSeconds]
  /\ undisturbed' = FALSE
  /\ UNCHANGED <<onAlertCallback, alertTriggeredRef, callbackCalls, runs>>
  /\ UNCHANGED <<alertVars, sessionVars, syncVars, retryVars, emergencyVars>>

\* respondToCheckIn: back to phase monitoring with 60 s; the interval and
\* the flag are left as they are
RespondToCheckIn ==
  /\ state.isActive
  /\ state.totalCheckins < MaxCheckins
  /\ state' = [state EXCEPT !.phase = "monitoring", !.timeRemaining = monitoringSeconds,
                            !.totalCheckins = @ + 1]
  /\ undisturbed' = FALSE
  /\ UNCHANGED <<intervalRef, onAlertCallback, alertTriggeredRef, callbackCalls, runs>>
  /\ UNCHANGED <<alertVars, sessionVars, syncVars, retryVars, emergencyVars>>

InitMonitoring ==
  /\ state = [isActive |-> FALSE, phase |-> "idle", timeRemaining |-> monitoringSeconds,
              totalCheckins |-> 0]
  /\ intervalRef = FALSE
  /\ onAlertCallback = FALSE
  /\ alertTriggeredRef = FALSE
  /\ callbackCalls = 0
  /\ undisturbed = FALSE
  /\ runs = 0

NextMonitoring ==
  \/ SetOnAlert
  \/ StartMonitoring
  \/ MonitoringTick
  \/ StopMonitoring
  \/ RespondToCheckIn

(***************************************************************************)
(* The requester's tab: App's views, MonitoringView's alert callback,      *)
(* EmergencyHelp and the sessionStorage keys they hand the alert over      *)
(* with.  The requester uses the app without an account.                   *)
(***************************************************************************)
RequesterTab == "t1"
Requester == Anon

\* the state of a freshly mounted EmergencyHelp
unmountedHelp == [alertSent |-> FALSE, alertId |-> NULL, alertTimer |-> FALSE]

\* UPDATE alerts SET status = 'cancelled' WHERE id = id, under the alerts
\* UPDATE policy of the caller
cancelAlertRow(rows, caller, id) ==
  {IF r.id = id /\ AlertUpdatePolicy(caller, r)
   THEN [r EXCEPT !.status = "cancelled"] ELSE r : r \in rows}

\* EmergencyHelp mounts: its first effect adopts the alert stored under
\* active_alert and removes from_monitoring; its second effect, run after
\* the first, arms the 2 s timer unless active_alert or from_monitoring is
\* set
MountEmergencyHelp(storage) ==
  /\ currentView' = "emergency"
  /\ sessionStorage' = [storage EXCEPT !.from_monitoring = FALSE]
  /\ emergencyHelp' =
       IF storage.active_alert # NULL
       THEN [alertSent |-> TRUE, alertId |-> storage.active_alert, alertTimer |-> FALSE]
       ELSE [alertSent |-> FALSE, alertId |-> NULL, alertTimer |-> TRUE]

\* the landing page's monitoring button
OpenMonitoring ==
  /\ currentView = "landing"
  /\ currentView' = "monitoring"
  /\ UNCHANGED <<sessionStorage, emergencyHelp>>
  /\ UNCHANGED <<alertVars, sessionVars, syncVars, retryVars, monitorVars>>

\* MonitoringView.initializeMonitoring: startSession
MonitoringStartSession ==
  /\ currentView = "monitoring"
  /\ currentSession[RequesterTab] = NULL
  /\ StartSession(RequesterTab, Requester)

\* MonitoringView's alert callback with a session: createAlert(session.id)
MonitoringAlertCallback ==
  /\ currentView = "monitoring"
  /\ currentSession[RequesterTab] # NULL
  /\ BeginCreateAlert(RequesterTab, Requester, currentSession[RequesterTab])
  /\ UNCHANGED emergencyVars
  /\ UNCHANGED <<alertVars, syncVars, retryVars, monitorVars>>

\* the callback after createAlert has returned: the alert is stored under
\* active_alert, onAlert -> App.handleAlert sets from_monitoring and shows
\* the emergency view
MonitoringAlertStored ==
  /\ currentView = "monitoring"
  /\ sop[RequesterTab].kind = "createAlert" /\ sop[RequesterTab].pc = "idle"
  /\ sop[RequesterTab].outcome = "returned" /\ sop[RequesterTab].sessionId # NULL
  /\ MountEmergencyHelp([active_alert |-> sop[RequesterTab].result,
                         from_monitoring |-> TRUE])
  /\ UNCHANGED <<alertVars, sessionVars, syncVars, retryVars, monitorVars>>

\* the landing page's emergency button
EnterEmergency ==
  /\ currentView = "landing"
  /\ MountEmergencyHelp(sessionStorage)
  /\ UNCHANGED <<alertVars, sessionVars, syncVars, retryVars, monitorVars>>

\* the 2 s timer fires: setAlertSent(true) and createAlert(null, locationData)
EmergencyAlertTimer ==
  /\ currentView = "emergency"
  /\ emergencyHelp.alertTimer
  /\ emergencyHelp' = [emergencyHelp EXCEPT !.alertSent = TRUE, !.alertTimer = FALSE]
  /\ BeginCreateAlert(RequesterTab, Requester, NULL)
  /\ UNCHANGED <<sessionStorage, currentView>>
  /\ UNCHANGED <<alertVars, syncVars, retryVars, monitorVars>>

\* createAlert has returned to the timer's callback: setAlertId(alert.id)
EmergencyAlertCreated ==
  /\ currentView = "emergency"
  /\ emergencyHelp.alertSent /\ emergencyHelp.alertId = NULL
  /\ sop[RequesterTab].kind = "createAlert" /\ sop[RequesterTab].pc = "idle"
  /\ sop[RequesterTab].outcome = "returned" /\ sop[RequesterTab].sessionId = NULL
  /\ emergencyHelp' = [emergencyHelp EXCEPT !.alertId = sop[RequesterTab].result]
  /\ UNCHANGED <<sessionStorage, currentView>>
  /\ UNCHANGED <<alertVars, sessionVars, syncVars, retryVars, monitorVars>>

\* the header's back arrow: onBack, EmergencyHelp unmounts and its timer is
\* cleared
EmergencyBack ==
  /\ currentView = "emergency"
  /\ currentView' = "landing"
  /\ emergencyHelp' = unmountedHelp
  /\ UNCHANGED sessionStorage
  /\ UNCHANGED <<alertVars, sessionVars, syncVars, retryVars, monitorVars>>

\* "I'm Safe - Cancel Alert" with an alert id: cancelAlert(alertId), which
\* removes active_alert after its UPDATE, then onBack
EmergencyCancel ==
  /\ currentView = "emergency"
  /\ emergencyHelp.alertId # NULL
  /\ createdAlerts' = cancelAlertRow(createdAlerts, Requester, emergencyHelp.alertId)
  /\ sessionStorage' = [sessionStorage EXCEPT !.active_alert = NULL]
  /\ currentView' = "landing"
  /\ emergencyHelp' = unmountedHelp
  /\ UNCHANGED <<monitoring_sessions, sop, currentSession, now>>
  /\ UNCHANGED <<alertVars, syncVars, retryVars, monitorVars>>

\* cancelAlert(id) called by another client
OtherClientCancelsAlert(caller, id) ==
  /\ \E r \in createdAlerts : r.id = id /\ r.status # "cancelled"
  /\ createdAlerts' = cancelAlertRow(createdAlerts, caller, id)
  /\ UNCHANGED <<monitoring_sessions, sop, currentSession, now>>
  /\ UNCHANGED <<alertVars, syncVars, auxVars>>

InitEmergency ==
  /\ sessionStorage = [active_alert |-> NULL, from_monitoring |-> FALSE]
  /\ currentView = "landing"
  /\ emergencyHelp = unmountedHelp

NextEmergency ==
  \/ OpenMonitoring
  \/ MonitoringStartSession
  \/ SessionInsert(RequesterTab)
  \/ MonitoringAlertCallback
  \/ CreateAlertRpc(RequesterTab)
  \/ CreateAlertEndSession(RequesterTab)
  \/ MonitoringAlertStored
  \/ EnterEmergency
  \/ EmergencyAlertTimer
  \/ EmergencyAlertCreated
  \/ EmergencyBack
  \/ EmergencyCancel
  \/ \E id \in CreatedIds : OtherClientCancelsAlert(Anon2, id)

InitAux == InitRetry /\ InitMonitoring /\ InitEmergency

Init == InitAlerts /\ InitSessions /\ InitSync /\ InitAux

Next ==
  \/ \E t \in Tabs, u \in Users, a \in AlertIds : StartCommit(t, u, a)
  \/ \E t \in Tabs : CommitCheck(t)
  \/ \E t \in Tabs : CommitCreate(t)
  \/ \E t \in Tabs : CommitInsert(t)
  \/ \E t \in Tabs : CommitIncrement(t)
  \/ \E t \in Tabs : CommitIncrementError(t)
  \/ \E t \in Tabs, u \in Users, a \in AlertIds : StartCancel(t, u, a)
  \/ \E t \in Tabs : CancelRpc(t)
  \/ \E t \in Tabs : CancelRpcBody(t)
  \/ \E t \in Tabs : CancelRpcError(t)
  \/ \E t \in Tabs : CancelDelete(t)
  \/ \E t \in Tabs : CancelDeleteError(t)
  \/ \E t \in Tabs : CancelLog(t)
  \/ \E t \in Tabs : CancelRead(t)
  \/ \E t \in Tabs : CancelUpdate(t)
  \/ \E t \in Tabs, u \in Users, a \in AlertIds : StartEnd(t, u, a)
  \/ \E t \in Tabs : EndResponseRow(t)
  \/ \E t \in Tabs : EndAlert(t)
  \/ \E c \in Clients, a \in AlertIds : cancelAlert(c, a)
  \/ \E t \in Tabs, c \in Clients \ Users, a \in AlertIds : CommitNoUser(t, c, a)
  \/ \E t \in Tabs, c \in Clients \ Users, a \in AlertIds : CancelNoUser(t, c, a)
  \/ \E t \in Tabs, c \in Clients \ Users, a \in AlertIds : EndNoUser(t, c, a)

Spec == Init /\ [][Next]_vars

\* the coordinator observed by a useAlerts instance that refetches
NextSync == Next \/ \E t \in Tabs : FetchAlerts(t)
SpecSync == Init /\ [][NextSync]_vars

\* withRetry under every outcome of its operation
SpecRetry == Init /\ [][NextRetry]_vars

\* the check-in countdown under every order of its calls and ticks
SpecMonitoring == Init /\ [][NextMonitoring]_vars

\* the interval fires every second while it is armed
SpecMonitoringFair == SpecMonitoring /\ WF_vars(MonitoringTick)

\* overlapping fetchAlerts calls of one instance
SpecOverlap == Init /\ [][NextOverlap]_vars

\* the requester's tab, every store call succeeding
SpecEmergency == Init /\ [][NextEmergency]_vars

\* the session manager alone
SpecSession == Init /\ [][NextSession]_vars

\* the live synchronization of one instance, the store changed by
\* cancelAlert calls of an anonymous requester
SpecChannel == Init /\ [][NextChannel]_vars

\* timers fire and store calls return; the interval ticks whatever else
\* is in flight, hence strong fairness of PollingTick (the bound
\* MaxInflight disables it from time to time)
FairChannel ==
  /\ WF_vars(SetupSubscriptions)
  /\ WF_vars(SafetyNetTimer)
  /\ SF_vars(PollingTick)
  /\ WF_vars(DebounceFire)
  /\ WF_vars(\E i \in 1..MaxInflight : FetchQuery(i))
  /\ WF_vars(\E i \in 1..MaxInflight : FetchApply(i))
SpecChannelFair == SpecChannel /\ FairChannel

TypeOK ==
  /\ \A a \in AlertIds : alerts[a].status \in AlertStatus
  /\ \A r \in responses : r.status \in ResponseStatus

(***************************************************************************)
(* Properties.                                                             *)
(***************************************************************************)

AllIdle == \A t \in Tabs : op[t].pc = "idle"

\* the calls started so far are exactly those of f (a function from
\* <<kind, caller, alert>> to a count)
CallsAre(f) ==
  \A k \in Kinds \X Clients \X AlertIds :
    calls[k] = IF k \in DOMAIN f THEN f[k] ELSE 0

AlertRows(a) == {r \in responses : r.alert_id = a}
Terminal == {"resolved", "cancelled"}

\* C1: when one responder has invoked commitToAlert on one alert twice
\* (in sequence or overlapping) and nothing else was called, the alert's
\* responder_count has grown by exactly 1 (from 0 to 1).
C1_CommitTwiceCountsOnce ==
  \A u \in Users, a \in AlertIds :
    (AllIdle /\ CallsAre(<<"commit", u, a>> :> 2)) => alerts[a].responder_count = 1

\* C2: at most one row of responses per (alert, responder) pair, in every
\* reachable state.
C2_OneRowPerPair ==
  \A a \in AlertIds, u \in Users : Cardinality(ResponseRows(responses, a, u)) <= 1

\* two commitToAlert calls of one responder on one alert have both run
\* create_response_safe, and one row exists
C2_Witness ==
  \E t1, t2 \in Tabs :
    /\ t1 # t2
    /\ op[t1].pc = "c_incr" /\ op[t2].pc = "c_incr"
    /\ op[t1].user = op[t2].user /\ op[t1].alert = op[t2].alert
    /\ Cardinality(ResponseRows(responses, op[t1].alert, op[t1].user)) = 1

\* C3: once the commitToAlert and cancelResponse calls have all completed
\* and the alert list has been refetched, responder_count of every alert
\* equals the number of its committed, en_route or arrived responses.
OnlyCommitCancel ==
  \A k \in Kinds \X Clients \X AlertIds : k[1] \in {"end", "cancelAlert"} => calls[k] = 0

C3_CountConverges ==
  (AllIdle /\ OnlyCommitCancel /\ alertList = ListedAlerts(alerts)) =>
    /\ \A a \in AlertIds : alerts[a].responder_count = LiveCount(responses, a)
    /\ \A row \in alertList : row.responder_count = LiveCount(responses, row.id)

\* C4: two different responders have each called commitToAlert once on the
\* same active alert, concurrently, no store call failed and both calls
\* have completed: the alert has two response rows, responder_count 2 and
\* status responded.
C4_TwoRespondersCommit ==
  \A a \in AlertIds, u1, u2 \in Users :
    (u1 # u2 /\ AllIdle /\ faults = 0
       /\ CallsAre(<<"commit", u1, a>> :> 1 @@ <<"commit", u2, a>> :> 1)) =>
      /\ Cardinality(AlertRows(a)) = 2
      /\ alerts[a].responder_count = 2
      /\ alerts[a].status = "responded"

\* C5: no step takes an alert from resolved or cancelled to active or
\* responded.
C5_NoRegression ==
  [][\A a \in AlertIds :
       alerts[a].status \in Terminal => alerts'[a].status \notin {"active", "responded"}]_vars

\* a commitToAlert call that started on a cancelled alert has completed
\* and has incremented the alert's count (the only calls: cancelAlert, commit)
C5_Witness ==
  \E t \in Tabs, a \in AlertIds, u \in Users :
    /\ CallsAre(<<"cancelAlert", u, a>> :> 1 @@ <<"commit", u, a>> :> 1)
    /\ op[t].pc = "idle" /\ op[t].kind = "commit" /\ op[t].alert = a
    /\ op[t].statusAtStart = "cancelled"
    /\ alerts[a].status = "cancelled"
    /\ alerts[a].responder_count = 1

\* C6: terminal states are absorbing: a resolved alert stays resolved and a
\* cancelled alert stays cancelled in every step.
C6_TerminalAbsorbing ==
  [][\A a \in AlertIds :
       alerts[a].status \in Terminal => alerts'[a].status = alerts[a].status]_vars

\* C7: in a state where responder u holds the last live response of alert a,
\* cancelling it yields the same alert status on every path: the procedure
\* cancel_response_safe, the manual fallback (delete, read count, update)
\* and decrement_responder_count.
RpcCancelStatus(a, u) ==
  cancel_response_safe_body(alerts, responses, response_cancellations, u, a, u).alerts[a].status
ManualCancelStatus(a, u) ==
  ManualUpdate(alerts, u, a, alerts[a].responder_count)[a].status
DecrementStatus(a, u) == decrement_responder_count(alerts, u, a)[a].status

LastLive(a, u) ==
  /\ LiveCount(responses, a) = 1
  /\ \E r \in ResponseRows(responses, a, u) : r.status \in LiveStatus

C7_OnePolicy ==
  \A a \in AlertIds, u \in Users :
    LastLive(a, u) =>
      /\ RpcCancelStatus(a, u) = ManualCancelStatus(a, u)
      /\ RpcCancelStatus(a, u) = DecrementStatus(a, u)

\* C8: no step of a commitToAlert call that was invoked after the originator
\* had cancelled the alert adds a response row for it or changes its count.
OriginCancelled(a) ==
  /\ alerts[a].status = "cancelled"
  /\ \E c \in Callers : calls[<<"cancelAlert", c, a>>] > 0 /\ AlertUpdatePolicy(c, alerts[a])

C8_NoCommitAfterCancel ==
  [][\A t \in Tabs :
       (op[t].kind = "commit" /\ op[t].pc # "idle" /\ op'[t] # op[t]
          /\ op[t].statusAtStart = "cancelled" /\ OriginCancelled(op[t].alert)) =>
         /\ AlertRows(op[t].alert) = {r \in responses' : r.alert_id = op[t].alert}
         /\ alerts'[op[t].alert].responder_count = alerts[op[t].alert].responder_count]_vars

\* C9: at most one active monitoring session per origin, in every
\* reachable state.
C9_OneActiveSession ==
  /\ \A u \in Users : Cardinality(ActiveOfUser(monitoring_sessions, u)) <= 1
  /\ \A x \in AnonUuids :
       Cardinality({s \in monitoring_sessions :
                      s.anonymous_id = x /\ s.status = "active"}) <= 1

\* two startSession calls of one user overlapped: one holds the active
\* session, the insert of the other was rejected with 23505
C9_Witness ==
  \E t1, t2 \in Tabs :
    /\ t1 # t2
    /\ sop[t1].user = sop[t2].user /\ sop[t1].user # NULL
    /\ sop[t1].outcome = "returned"
    /\ sop[t2].pc = "s_close2"
    /\ Cardinality(ActiveOfUser(monitoring_sessions, sop[t1].user)) = 1

\* C10: a startSession call made while its origin had an active session
\* returns a newly created session, and the earlier session is completed.
SessionRow(id) == CHOOSE s \in monitoring_sessions : s.id = id

C10_StartClosesFirst ==
  \A t \in Tabs :
    (sop[t].outcome = "returned" /\ sop[t].prior # NULL) =>
      /\ sop[t].result # sop[t].prior
      /\ SessionRow(sop[t].prior).status = "completed"

\* C11: an alert's status becomes resolved only in the step of an
\* endResponse call whose caller held a committed, en_route or arrived
\* response on that alert when the call updated the response.
C11_ResolvedOnlyByHolder ==
  [][\A a \in AlertIds :
       (alerts[a].status # "resolved" /\ alerts'[a].status = "resolved") =>
         \E t \in Tabs :
           /\ op[t].kind = "end" /\ op[t].pc = "e_alert" /\ op[t].alert = a
           /\ op'[t].pc = "idle"
           /\ op[t].heldLive]_vars

\* the client is the origin that created the alert row
IsOrigin(client, row) ==
  IF client \in Users THEN row.user_id = client
  ELSE row.user_id = NULL /\ row.anonymous_id = AnonymousIdOf(client)

\* C12: a cancelAlert call changes the alert (to status cancelled) only
\* when its caller is the origin that created the alert; a call by any
\* other identity leaves the alert unchanged.
C12_CancelOnlyByOrigin ==
  [][\A c \in Clients, a \in AlertIds :
       (calls'[<<"cancelAlert", c, a>>] = calls[<<"cancelAlert", c, a>>] + 1
          /\ ~IsOrigin(c, alerts[a])) =>
         alerts'[a] = alerts[a]]_vars

C14_EndSessionIdempotent ==
  [][\A t \in Tabs :
       (sop'[t].kind = "end" /\ sop'[t].at = now /\ now' = now + 1
          /\ SessionRow(sop'[t].result).ended_at # NoTime) =>
         /\ monitoring_sessions' = monitoring_sessions
         /\ sop'[t].outcome = "returned"]_vars

\* the last call of a tab was an endSession on a session that an earlier
\* call had ended: the row carries the earlier call's time
C14_Witness ==
  \E t \in Tabs :
    /\ sop[t].kind = "end"
    /\ SessionRow(sop[t].result).ended_at # NoTime
    /\ SessionRow(sop[t].result).ended_at # <<sop[t].at>>

\* C15: a commitToAlert, cancelResponse or endResponse call made with no
\* authenticated identity throws at once and writes nothing: responses,
\* response_cancellations and alerts are unchanged by the call.
C15_UnauthenticatedThrows ==
  [][\A k \in {"commit", "cancel", "end"}, c \in Clients \ Users, a \in AlertIds :
       calls'[<<k, c, a>>] = calls[<<k, c, a>>] + 1 =>
         /\ UNCHANGED <<alerts, responses, response_cancellations>>
         /\ \E t \in Tabs :
              /\ op[t].pc = "idle" /\ op'[t].pc = "idle"
              /\ op'[t].kind = k /\ op'[t].alert = a
              /\ op'[t].outcome = "threw"]_vars

\* a responder holds a response on an alert, and a cancelResponse or
\* endResponse call made on that alert without an identity has thrown
C15_Witness ==
  \E t \in Tabs, c \in Clients \ Users :
    /\ op[t].kind \in {"cancel", "end"} /\ op[t].user = NULL
    /\ op[t].outcome = "threw"
    /\ calls[<<op[t].kind, c, op[t].alert>>] = 1
    /\ AlertRows(op[t].alert) # {}

\* C16: in every behaviour in which the instance stays mounted and no
\* fetch fails (the store stops changing after finitely many calls), the
\* alert list eventually equals the store's listed alerts and stays equal,
\* whatever the push channel does.
C16_ListConverges ==
  ([]isMounted /\ [](faults = 0)) => <>[](alertList = ListedAlerts(alerts))

\* a fetchAlerts call of the instance is in flight
FetchInFlight == fetches # <<>>

\* C17: while no subscription has reported SUBSCRIBED, once the 3 s grace
\* period is over the fallback polling runs, connectionStatus never reads
\* connected, and it reads reconnecting only while a refresh is in flight.
C17_DisconnectedWhilePolling ==
  (isMounted /\ ~everSubscribed /\ ~safetyTimer) =>
    /\ pollingTimer
    /\ connectionStatus # "connected"
    /\ (connectionStatus = "reconnecting" => FetchInFlight)

\* C18: while both push subscriptions last reported SUBSCRIBED (no
\* CHANNEL_ERROR or CLOSED since), the fallback polling timer of the
\* mounted instance is not running.
C18_NoPollingWhileHealthy ==
  (isMounted /\ \A s \in Subs : chan[s] = "SUBSCRIBED") => ~pollingTimer

\* C19: from the moment a subscription of the mounted instance reports
\* CHANNEL_ERROR or CLOSED until a subscription reports SUBSCRIBED or the
\* instance unmounts (degraded), the polling interval is running, and it
\* keeps issuing refetches: if it stays degraded for ever, polling
\* refetches are issued again and again.
C19_PollingWhileDegraded ==
  /\ [](degraded => pollingTimer)
  /\ <>[]degraded => ([]<>pollFlip /\ []<>~pollFlip)

\* a subscription that had reported SUBSCRIBED has reported an error, the
\* polling has resumed and a polling refetch is in flight
C19_Witness ==
  /\ isMounted /\ everSubscribed /\ degraded /\ pollingTimer
  /\ connectionStatus = "reconnecting" /\ FetchInFlight

\* C20: once the instance has unmounted, every push subscription it has
\* created, also one created by a setup that finished after the unmount, is
\* unsubscribed, and none of its timers (polling interval, debounce
\* timeout, safety-net timeout) is pending.
C20_UnmountReleasesAll ==
  ~isMounted =>
    /\ \A s \in Subs : chan[s] \in {"none", "unsubscribed"}
    /\ ~pollingTimer /\ ~debounceTimer /\ ~safetyTimer

\* C21: the alert list of useAlerts holds only alerts fetched as active or
\* responded, never one fetched as resolved, cancelled or false_alarm.
C21_ListNonTerminal ==
  \A row \in alertList : row.status \in {"active", "responded"}

\* C22: while the last completed fetchAlerts of a mounted instance is a
\* failed one, the instance's connectionStatus is not connected.
C22_FailedFetchNotConnected ==
  (isMounted /\ lastFetch = "failed") => connectionStatus # "connected"

C24_PreciseOnlyForCommitted ==
  \A t \in Tabs :
    (op[t].user \in Users /\ op[t].pc = "idle") =>
      \A v \in activeAlerts(alertList, userCommitments[t]) :
        v.preciseLocation = precise_location[v.id] =>
          \E r \in ResponseRows(responses, v.id, op[t].user) : r.status \in LiveStatus

\* C25: every alert row inserted by createAlert and every session row
\* inserted by startSession has exactly one of user_id and anonymous_id
\* non-null.
C25_OriginExactlyOne ==
  /\ \A r \in createdAlerts : (r.user_id # NULL) # (r.anonymous_id # NULL)
  /\ \A s \in monitoring_sessions : (s.user_id # NULL) # (s.anonymous_id # NULL)

\* createAlert has inserted an alert for an authenticated and one for an
\* anonymous caller, and startSession has inserted a session
C25_Witness ==
  /\ \E r \in createdAlerts : r.user_id # NULL /\ r.anonymous_id = NULL
  /\ \E r \in createdAlerts : r.user_id = NULL /\ r.anonymous_id # NULL
  /\ monitoring_sessions # {}

\* C29: when createAlert called with a non-null sessionId has returned an
\* alert, the session of that id is not active.
C29_SessionEndedOnAlert ==
  \A t \in Tabs :
    (/\ sop[t].kind = "createAlert"
     /\ sop[t].pc = "idle"
     /\ sop[t].outcome = "returned"
     /\ sop[t].sessionId # NULL)
    => \A s \in monitoring_sessions : s.id = sop[t].sessionId => s.status # "active"

\* C27: when increment_responder_count fails in a commitToAlert call whose
\* create_response_safe has inserted the response row, the call throws to
\* its caller and the row is still in the store.
C27_IncrementErrorThrown ==
  [][\A t \in Tabs :
       (CommitIncrementError(t) /\ op[t].created)
       => (/\ op'[t].outcome = "threw"
           /\ ResponseRows(responses', op[t].alert, op[t].user) # {})]_vars

\* position of a startSession call in its sequence of store calls
StartRank(pc) ==
  CASE pc = "s_check" -> 1 [] pc = "s_close" -> 2 [] pc = "s_insert" -> 3
    [] pc = "s_close2" -> 4 [] pc = "s_insert2" -> 5 [] OTHER -> 6

\* C28: a startSession call issues at most two INSERTs and every step
\* takes it forward, so it terminates; a second INSERT follows a failed
\* first one and, for an authenticated caller, a repeated close step; when
\* the second INSERT fails the call throws and currentSession is left as
\* it was.
C28_RetryOnce ==
  [][\A t \in Tabs :
       (sop[t].kind = "start" /\ sop[t].pc # "idle" /\ sop'[t] # sop[t]) =>
         /\ StartRank(sop'[t].pc) > StartRank(sop[t].pc)
         /\ sop'[t].inserts <= 2
         /\ (sop'[t].inserts = 2 /\ sop'[t].user # NULL) => sop'[t].closes = 2
         /\ (sop[t].pc = "s_insert2" /\ sop'[t].outcome # "returned") =>
              /\ sop'[t].pc = "idle" /\ sop'[t].outcome = "threw"
              /\ currentSession'[t] = currentSession[t]]_vars

\* a startSession call has thrown after its second INSERT failed
C28_Witness ==
  \E t \in Tabs :
    /\ sop[t].kind = "start" /\ sop[t].pc = "idle" /\ sop[t].outcome = "threw"
    /\ sop[t].inserts = 2 /\ sop[t].closes = 2

\* timeouts of the instance that will call fetchAlerts once when they fire
PendingRefetches == IF debounceTimer THEN 1 ELSE 0

\* C30: a push notification of either subscription received by a mounted
\* instance triggers three refetches: one started at once and two
\* scheduled on timeouts.
C30_StaggeredRefetches ==
  [][\A s \in Subs :
       (PostgresChanges(s) /\ isMounted) =>
         (Len(fetches') + PendingRefetches') = (Len(fetches) + PendingRefetches) + 3]_vars

\* C32: responder_count of every alert is never negative.
C32_CountNeverNegative ==
  \A a \in AlertIds : alerts[a].responder_count >= 0

\* a cancellation by the alert's owner has run to its end on an alert no
\* commitToAlert call was ever made on: the decrement met a count of 0
C32_Witness ==
  \E t \in Tabs, a \in AlertIds :
    /\ op[t].kind = "cancel" /\ op[t].pc = "idle" /\ op[t].outcome = "returned"
    /\ op[t].alert = a /\ op[t].user = alerts[a].user_id
    /\ \A c \in Clients : calls[<<"commit", c, a>>] = 0
    /\ alerts[a].responder_count = 0

\* C33: a cancelAlert call changes nothing but the status of its alert:
\* no response row is created, deleted or modified and the alert's
\* responder_count is unchanged.
C33_CancelAlertFrame ==
  [][\A c \in Clients, a \in AlertIds :
       cancelAlert(c, a) =>
         /\ responses' = responses
         /\ response_cancellations' = response_cancellations
         /\ alerts' = [alerts EXCEPT ![a].status = alerts'[a].status]]_vars

\* cancelAlert has cancelled an alert that carries a response row and a
\* positive responder_count
C33_Witness ==
  \E c \in Clients, a \in AlertIds :
    /\ calls[<<"cancelAlert", c, a>>] > 0
    /\ alerts[a].status = "cancelled"
    /\ alerts[a].responder_count >= 1
    /\ AlertRows(a) # {}

\* C34: no step of a cancelResponse call whose cancel_response_safe found
\* no response row of the caller changes the alert's responder_count or
\* status.
C34_CancelMissingFrame ==
  [][\A t \in Tabs :
       (/\ op[t].kind = "cancel" /\ op[t].pc # "idle"
        /\ ~op[t].found /\ faults = 0 /\ faults' = 0
        /\ op'[t] # op[t])
       => alerts'[op[t].alert] = alerts[op[t].alert]]_vars


\* C36: a monitoring session has status active exactly when its ended_at is
\* null, and a session whose ended_at is set is never changed again by any
\* step of startSession, endSession or createAlert.
C36_EndedIsFinal ==
  /\ [](\A s \in monitoring_sessions : (s.status = "active") <=> (s.ended_at = NoTime))
  /\ [][\A s \in monitoring_sessions :
          s.ended_at # NoTime => s \in monitoring_sessions']_vars

\* endSession has been called on a session that had ended before the call
C36_Witness ==
  \E s \in monitoring_sessions, t \in Tabs :
    /\ s.ended_at # NoTime
    /\ sop[t].kind = "end" /\ sop[t].pc = "idle" /\ sop[t].result = s.id
    /\ sop[t].at > s.ended_at[1]


\* C40: when a createAlert call has thrown, the store holds no alert row
\* created by that call.
C40_ThrownCreatesNothing ==
  \A t \in Tabs :
    (sop[t].kind = "createAlert" /\ sop[t].pc = "idle" /\ sop[t].outcome = "threw")
    => \A r \in createdAlerts : r.id # sop[t].result


\* C31: a fetchAlerts run is reported as failed on an error of the alerts
\* query only after the query has been attempted 5 times, and the query is
\* never attempted more than 5 times.
C31_FailedAfterFiveAttempts ==
  retry.caller = "fetchAlerts" =>
    /\ retry.attempt <= fetchAlerts_maxRetries
    /\ (retry.pc = "reported" /\ retry.report = "failed") =>
         retry.attempt = fetchAlerts_maxRetries


\* C37: between one startMonitoring call and the next, the alert callback
\* is invoked at most once.
C37_CallbackAtMostOnce == callbackCalls <= 1

\* the countdown is about to run out a second time in one run: the callback
\* has been invoked, a check-in restarted the countdown, and the final
\* warning is at its last second
C37_Witness ==
  /\ callbackCalls = 1 /\ alertTriggeredRef /\ onAlertCallback /\ intervalRef
  /\ state.phase = "final_warning" /\ state.timeRemaining = 1

\* C38: once monitoring is started with a callback registered, and as long
\* as neither respondToCheckIn nor stopMonitoring is called, the phase
\* changes only along monitoring, prompting, final_warning, alert_sent, the
\* callback is eventually invoked, and timeRemaining is never below 0.
C38_CountdownReachesAlert ==
  /\ [](state.timeRemaining >= 0)
  /\ [][(undisturbed /\ undisturbed' /\ runs' = runs /\ state'.phase # state.phase)
        => <<state.phase, state'.phase>> \in
             {<<"monitoring", "prompting">>, <<"prompting", "final_warning">>,
              <<"final_warning", "alert_sent">>}]_vars
  /\ ((undisturbed /\ onAlertCallback /\ state.phase = "monitoring")
        ~> (~undisturbed \/ (state.phase = "alert_sent" /\ callbackCalls = 1)))

\* an undisturbed run has gone through to alert_sent and invoked the
\* callback
C38_Witness ==
  /\ undisturbed /\ onAlertCallback
  /\ state.phase = "alert_sent" /\ state.timeRemaining = 0 /\ callbackCalls = 1


\* the status the list shows for alert a ("none" when a is not listed)
ShownStatus(list, a) ==
  IF \E r \in list : r.id = a THEN (CHOOSE r \in list : r.id = a).status ELSE "none"

\* C35: the list never goes back to a snapshot read before the one it
\* holds: cancelled being final in the store, an alert the list shows as
\* cancelled is never shown as anything else afterwards.
C35_NoStaleOverwrite ==
  [][\A a \in AlertIds :
       ShownStatus(alertList, a) = "cancelled" =>
         ShownStatus(alertList', a) = "cancelled"]_vars


\* the alert stored under active_alert is active or responded
StoredAlertLive ==
  \E r \in createdAlerts :
    r.id = sessionStorage.active_alert /\ r.status \in {"active", "responded"}

\* C39: every entry into the emergency view from the landing page either
\* finds the alert stored under active_alert active or responded, or
\* schedules the creation of a new alert: a stale entry never suppresses
\* the creation.
C39_StaleEntryNeverSuppresses ==
  [][(currentView = "landing" /\ currentView' = "emergency")
       => (StoredAlertLive \/ emergencyHelp'.alertTimer)]_vars

====
